---- MODULE Spec2Model ----
(***************************************************************************)
(* Model of the section pipeline of oceans/ctd/ctd.py: the cumulative      *)
(* distance vector and extrap_sec, on grids of extended rationals (exact   *)
(* fractions plus NaN and the two infinities of numpy's float arithmetic). *)
(* Column and row indices are 0-based as in the source.                    *)
(***************************************************************************)
EXTENDS Integers, Sequences, FiniteSets, TLC

\* ------------------------------------------------------------------ bounds
MaxStations == 4    \* grid family: at most this many stations (columns)
MaxRows == 2        \* grid family: at most this many depth levels (rows)
MaxLongStations == 5  \* long family: one level, at most this many stations
MaxCoordLen == 3    \* coordinate family: lon and lat have 1..MaxCoordLen entries
MaxCalls == 2       \* the caller applies extrap_sec at most this many times

\* ------------------------------------------- numpy float values and arithmetic
Abs(x) == IF x < 0 THEN -x ELSE x

RECURSIVE GCD(_, _)
GCD(a, b) == IF b = 0 THEN a ELSE GCD(b, a % b)

NaN == [k |-> "nan", n |-> 0, d |-> 1]
PInf == [k |-> "inf", n |-> 1, d |-> 1]
NInf == [k |-> "inf", n |-> -1, d |-> 1]

\* the fraction n/d (d /= 0) in lowest terms with a positive denominator
Rat(n, d) ==
    LET g == GCD(Abs(n), Abs(d))
        s == IF d < 0 THEN -1 ELSE 1
    IN  [k |-> "num", n |-> (s * n) \div g, d |-> Abs(d) \div g]

Num(n) == [k |-> "num", n |-> n, d |-> 1]

IsNaN(x) == x.k = "nan"
IsInf(x) == x.k = "inf"
IsNum(x) == x.k = "num"

\* sign of a number or an infinity: -1, 0 or 1
Sgn(x) == IF x.n > 0 THEN 1 ELSE IF x.n < 0 THEN -1 ELSE 0

SignedInf(s) == IF s > 0 THEN PInf ELSE NInf

FNeg(x) == IF IsNaN(x) THEN NaN ELSE [x EXCEPT !.n = -x.n]

FAdd(x, y) ==
    IF IsNaN(x) \/ IsNaN(y) THEN NaN
    ELSE IF IsInf(x) /\ IsInf(y) THEN (IF x = y THEN x ELSE NaN)
    ELSE IF IsInf(x) THEN x
    ELSE IF IsInf(y) THEN y
    ELSE LET g == GCD(x.d, y.d)
         IN  Rat(x.n * (y.d \div g) + y.n * (x.d \div g), (x.d \div g) * y.d)

FSub(x, y) == FAdd(x, FNeg(y))

FMul(x, y) ==
    IF IsNaN(x) \/ IsNaN(y) THEN NaN
    ELSE IF IsInf(x) \/ IsInf(y)
         THEN (IF Sgn(x) = 0 \/ Sgn(y) = 0 THEN NaN ELSE SignedInf(Sgn(x) * Sgn(y)))
    ELSE LET g1 == GCD(Abs(x.n), y.d)
             g2 == GCD(Abs(y.n), x.d)
         IN  Rat((x.n \div g1) * (y.n \div g2), (x.d \div g2) * (y.d \div g1))

\* numpy division: x/0 is an infinity or NaN (with a warning), never an exception
FDiv(x, y) ==
    IF IsNaN(x) \/ IsNaN(y) THEN NaN
    ELSE IF IsInf(y) THEN (IF IsInf(x) THEN NaN ELSE Num(0))
    ELSE IF Sgn(y) = 0 THEN (IF Sgn(x) = 0 THEN NaN ELSE SignedInf(Sgn(x)))
    ELSE IF IsInf(x) THEN SignedInf(Sgn(x) * Sgn(y))
    ELSE FMul(x, Rat(y.d, y.n))

\* x <= y for two finite numbers
FLeq(x, y) == Sgn(FSub(y, x)) >= 0

\* ------------------------------------------------------- gsw.distance (library)
MetresPerDegree == 111195   \* one degree of arc on the 6371 km sphere, in metres

LonVals == {0, 181}         \* longitudes of the coordinate family (181 is out of range)
LatVals == {0, 1, 91}       \* latitudes of the coordinate family (91 is out of range)

\* haversine distance in metres between two points 181 degrees of longitude apart
CrossDistance(lat1, lat2) ==
    LET lo == IF lat1 <= lat2 THEN lat1 ELSE lat2
        hi == IF lat1 <= lat2 THEN lat2 ELSE lat1
    IN  IF lo = 0 /\ hi = 0 THEN 19903892
        ELSE IF lo = 0 /\ hi = 1 THEN 19857837
        ELSE IF lo = 0 /\ hi = 91 THEN 9896365
        ELSE IF lo = 1 /\ hi = 1 THEN 19766450
        ELSE IF lo = 1 /\ hi = 91 THEN 9785170
        ELSE 222381

\* haversine distance in metres on the sphere; no range check on the coordinates
Haversine(lon1, lat1, lon2, lat2) ==
    IF lon1 = lon2 THEN Abs(lat2 - lat1) * MetresPerDegree
    ELSE CrossDistance(lat1, lat2)

\* gsw.distance(lon, lat)[0]: the segment distances between successive points,
\* or the ValueError it raises (a single point, or shapes that do not broadcast)
gsw_distance(lo, la) ==
    LET nl == Len(lo)
        nt == Len(la)
        n == IF nl >= nt THEN nl ELSE nt
        blon(i) == IF nl = 1 THEN lo[1] ELSE lo[i]
        blat(i) == IF nt = 1 THEN la[1] ELSE la[i]
    IN  IF nl = 1 /\ nt = 1 THEN [err |-> "ValueError", d |-> << >>]
        ELSE IF nl /= nt /\ nl /= 1 /\ nt /= 1 THEN [err |-> "ValueError", d |-> << >>]
        ELSE [err |-> "none",
              d |-> [i \in 1..(n - 1) |->
                        Haversine(blon(i), blat(i), blon(i + 1), blat(i + 1))]]

\* seg / 1e3: metres to kilometres
Km(seg) == [i \in 1..Len(seg) |-> FDiv(Num(seg[i]), Num(1000))]

\* np.cumsum: element i is element i-1 plus s[i]
RECURSIVE CumSumAt(_, _)
CumSumAt(s, i) == IF i = 1 THEN s[1] ELSE FAdd(CumSumAt(s, i - 1), s[i])

\* the running sum left out: the segment lengths themselves
cumsum_segments(s) == [i \in 1..Len(s) |-> s[i]]

cumsum(s) == [i \in 1..Len(s) |-> CumSumAt(s, i)]

\* the leading 0 left out: np.cumsum(seg / 1e3) alone
CumDist_nozero(seg) ==
    LET cs == cumsum(Km(seg))
    IN  [i \in 0..(Len(seg) - 1) |-> cs[i + 1]]

\* np.r_[0, np.cumsum(seg / 1e3)], indexed from 0
CumDist(seg) ==
    LET cs == cumsum(Km(seg))
    IN  [i \in 0..Len(seg) |-> IF i = 0 THEN Num(0) ELSE cs[i]]

NoDist == << >>
DistLen(dv) == Cardinality(DOMAIN dv)

\* ------------------------------------------------------------------- grids
NRows(g) == Cardinality(DOMAIN g)
NCols(g) == Cardinality(DOMAIN g[0])

\* Seed without the mask: the whole second-to-last column takes the last column
Seed_unmasked(g) ==
    LET c1 == NCols(g) - 2
        c2 == NCols(g) - 1
    IN  [r \in DOMAIN g |-> [c \in DOMAIN g[r] |->
            IF c = c1 THEN g[r][c2] ELSE g[r][c]]]

\* Seed only for a column whose bottom-most cell is missing, as the scan does
Seed_ifbottom(g) ==
    LET c1 == NCols(g) - 2
        c2 == NCols(g) - 1
    IN  [r \in DOMAIN g |-> [c \in DOMAIN g[r] |->
            IF c = c1 /\ IsNaN(g[r][c1]) /\ IsNaN(g[NRows(g) - 1][c1])
            THEN g[r][c2] ELSE g[r][c]]]

\* lines 197-198: missing cells of the second-to-last column take the last column
Seed(g) ==
    LET c1 == NCols(g) - 2
        c2 == NCols(g) - 1
    IN  [r \in DOMAIN g |-> [c \in DOMAIN g[r] |->
            IF c = c1 /\ IsNaN(g[r][c1]) THEN g[r][c2] ELSE g[r][c]]]

\* the fill without the distances: the difference of the two columns to the right
FillValue_unscaled(x1, x2, d0, d1, d2, f) ==
    FSub(x1, FMul(f, FSub(x2, x1)))

\* lines 202-204: the value written into a missing cell
FillValue(x1, x2, d0, d1, d2, f) ==
    FSub(x1, FMul(f, FMul(FDiv(FSub(x2, x1), FSub(d2, d1)), FSub(d1, d0))))

\* the fill of the bottom-most cell alone
FillCol_bottom(g, dv, col, f) ==
    [r \in DOMAIN g |-> [c \in DOMAIN g[r] |->
        IF c = col /\ r = NRows(g) - 1 /\ IsNaN(g[r][col])
        THEN FillValue(g[r][col + 1], g[r][col + 2], dv[col], dv[col + 1], dv[col + 2], f)
        ELSE g[r][c]]]

\* lines 201-204: every missing cell of column col is written
FillCol(g, dv, col, f) ==
    [r \in DOMAIN g |-> [c \in DOMAIN g[r] |->
        IF c = col /\ IsNaN(g[r][col])
        THEN FillValue(g[r][col + 1], g[r][col + 2], dv[col], dv[col + 1], dv[col + 2], f)
        ELSE g[r][c]]]

\* the scan down to column 0: range(lon.size - 2, -1, -1)
ScanCols_tozero(n) == [i \in 1..(IF n >= 2 THEN n - 1 ELSE 0) |-> n - 1 - i]

\* the scan in ascending order: range(1, lon.size - 1)
ScanCols_ascending(n) == [i \in 1..(IF n >= 3 THEN n - 2 ELSE 0) |-> i]

\* range(lon.size - 2, 0, -1)
ScanCols(n) == [i \in 1..(IF n >= 3 THEN n - 2 ELSE 0) |-> n - 1 - i]

\* ------------------------------------------------- gen_topomask's library calls
\* x < y for two finite numbers
FLt(x, y) == Sgn(FSub(y, x)) > 0

\* least integer >= n/d of a finite number
Ceil(x) == -((-x.n) \div x.d)

ArrLen(a) == Cardinality(DOMAIN a)
Last(a) == a[ArrLen(a) - 1]
NoArr == << >>

\* lat.mean() of a sequence of whole degrees
Mean(la) ==
    LET RECURSIVE Sum(_)
        Sum(i) == IF i = 0 THEN 0 ELSE Sum(i - 1) + la[i]
    IN  Rat(Sum(Len(la)), Len(la))

\* metres of height per 1000 dbar of pressure near the surface: gravity grows
\* with latitude, so the same pressure is reached at a smaller depth
MetresPerKilobar(latm) ==
    IF FLt(latm, Num(30)) THEN 994
    ELSE IF FLt(latm, Num(60)) THEN 991
    ELSE 989

\* gsw.z_from_p(p, lat): height (negative downwards) of pressure p
z_from_p(p, latm) == FNeg(FMul(p, Rat(MetresPerKilobar(latm), 1000)))

\* np.searchsorted(a, v, side='left') on a non-decreasing array
searchsorted(a, v) == Cardinality({i \in DOMAIN a : FLt(a[i], v)})

Clip(i, lo, hi) == IF i < lo THEN lo ELSE IF i > hi THEN hi ELSE i

InterpKinds == {"linear", "nearest"}

\* interp1d._call_linear: the straight line through the two points around v
call_linear(I, v) ==
    LET hi == Clip(searchsorted(I.x, v), 1, ArrLen(I.x) - 1)
        lo == hi - 1
        slope == FDiv(FSub(I.y[hi], I.y[lo]), FSub(I.x[hi], I.x[lo]))
    IN  FAdd(FMul(slope, FSub(v, I.x[lo])), I.y[lo])

\* interp1d._call_nearest: the point whose x is nearest, by the midpoints
call_nearest(I, v) ==
    LET x_bds == [i \in 0..(ArrLen(I.x) - 2) |->
                     FDiv(FAdd(I.x[i + 1], I.x[i]), Num(2))]
    IN  I.y[Clip(searchsorted(x_bds, v), 0, ArrLen(I.x) - 1)]

\* a point outside [x[0], x[-1]] takes the first station's value
OutOfBounds_first(I, v) == I.y[0]

\* bounds_error=False: a point outside [x[0], x[-1]] takes fill_value
OutOfBounds(I, v) == I.fill_value

\* interp1d.__call__ at one point
Evaluate(I, v) ==
    IF FLt(v, I.x[0]) \/ FLt(Last(I.x), v) THEN OutOfBounds(I, v)
    ELSE IF I.kind = "linear" THEN call_linear(I, v)
    ELSE call_nearest(I, v)

\* the stop value included: ceil((stop - start) / step) + 1 points
arange_len_closed(stop, step) ==
    IF Ceil(FDiv(stop, step)) + 1 > 0 THEN Ceil(FDiv(stop, step)) + 1 ELSE 0

\* number of points of np.arange(0, stop, step), step /= 0
arange_len(stop, step) ==
    IF Ceil(FDiv(stop, step)) > 0 THEN Ceil(FDiv(stop, step)) ELSE 0

\* np.arange(0, stop, step), step /= 0
arange(stop, step) ==
    [i \in 0..(arange_len(stop, step) - 1) |-> FMul(Num(i), step)]

\* what np.arange raises for a step of 0, by numpy version and argument types
ArangeZeroStepErrors == {"ValueError", "ZeroDivisionError"}

\* ------------------------------------------------------------------- state
VARIABLES
    heap,     \* array objects: object id -> grid contents
    data,     \* extrap_sec's parameter `data`: the id of the array it was handed
    lon, lat, \* station coordinates (sequences, decimal degrees)
    fd,       \* decay factor
    dist,     \* local `dist` of extrap_sec (NoDist until line 196 has run)
    todo,     \* columns the for loop of line 199 has still to visit
    pc,       \* "call", "seed", "scan", "done" or "error"
    err,      \* the exception that ended the call ("none" otherwise)
    ret,      \* id of the returned array (0 while nothing was returned)
    input,    \* contents of the caller's array when the current call began
    prevOut,  \* contents returned by the previous call (NoGrid before any)
    calls,    \* number of calls begun
    h,        \* gen_topomask: per-station maximum pressure, from line 253 on the depth
    dx,       \* gen_topomask: horizontal resolution of the mask, km
    kind,     \* gen_topomask: interpolation kind
    x,        \* gen_topomask: local `x`, the distance vector (NoArr until line 252)
    Ih,       \* gen_topomask: the interpolant of line 254 (NoInterp before)
    xm, hm,   \* gen_topomask: the mask (NoArr until computed)
    running,  \* the invocation whose frame the variables above hold
    parked,   \* frames of the invocations that are not running: id -> frame
    colormaps, \* namespace of the module colormaps.py while it is imported: name -> value
    self,     \* the Series a method of ctd.py was called on: [index, values]
    locals    \* arguments and local names of that method: name -> value

esVars == <<heap, data, fd, dist, todo, ret, input, prevOut, calls>>
gtVars == <<h, dx, kind, x, Ih, xm, hm>>

parVars == <<running, parked>>

\* names outside ctd.py's section functions
restVars == <<colormaps, self, locals>>

\* what a call of extrap_sec leaves alone besides its own frame
outsideES == <<gtVars, parVars, restVars>>

\* what a call of gen_topomask leaves alone besides its own frame
outsideGT == <<esVars, parVars, restVars>>

vars == <<lon, lat, pc, err, esVars, gtVars, parVars, restVars>>

CallerObj == 1      \* the array object the caller owns and passes in
NoGrid == << >>
NoInterp == [kind |-> "none"]

\* a single invocation, nothing else in progress
IdlePar == running = 1 /\ parked = << >>

NoNames == << >>

\* nothing outside the section functions is in progress
IdleRest == colormaps = NoNames /\ self = NoNames /\ locals = NoNames

\* no call of gen_topomask is in progress
IdleGT ==
    /\ h = NoArr /\ dx = Num(1) /\ kind = "linear"
    /\ x = NoArr /\ Ih = NoInterp /\ xm = NoArr /\ hm = NoArr

FdVals == {Num(0), Rat(1, 2), Num(1)}
FdEnds == {Num(0), Num(1)}      \* flat extrapolation and the default, full gradient

\* station spacings in degrees of latitude: even, with stations at the same
\* position, uneven, and all stations at one position
SpacingVals == {<<1, 1>>, <<0, 1>>, <<1, 2>>, <<0, 0>>}

\* a measured value at level r of station c
CellVal(r, c) == Num(100 * r + c * c)

\* missing rows of one column: the levels below a station's last scan, or a gap at the surface
ColPatterns(R) ==
    {{r \in 0..(R - 1) : r >= t} : t \in 0..R} \cup {{0}}

MkGrid(R, n, pat) ==
    [r \in 0..(R - 1) |-> [c \in 0..(n - 1) |->
        IF r \in pat[c] THEN NaN ELSE CellVal(r, c)]]

\* stations along a meridian, spaced alternately a and b degrees apart
LatAlt(n, a, b) == [i \in 1..n |-> (i \div 2) * a + ((i - 1) \div 2) * b]

Start(g, lo, la, f) ==
    /\ heap = [o \in {CallerObj} |-> g]
    /\ data = CallerObj
    /\ lon = lo
    /\ lat = la
    /\ fd = f
    /\ dist = NoDist
    /\ todo = << >>
    /\ pc = "call"
    /\ err = "none"
    /\ ret = 0
    /\ input = g
    /\ prevOut = NoGrid
    /\ calls = 1
    /\ IdleGT
    /\ IdlePar
    /\ IdleRest

\* grids with every pattern of missing cells, stations along a meridian
InitGrid ==
    \E n \in 1..MaxStations, R \in 1..MaxRows, sp \in SpacingVals, f \in FdEnds :
        \E pat \in [0..(n - 1) -> ColPatterns(R)] :
            Start(MkGrid(R, n, pat), [i \in 1..n |-> 0], LatAlt(n, sp[1], sp[2]), f)

\* longer transects sampled at a single level
InitLong ==
    \E n \in 1..MaxLongStations, sp \in SpacingVals, f \in FdVals :
        \E pat \in [0..(n - 1) -> ColPatterns(1)] :
            Start(MkGrid(1, n, pat), [i \in 1..n |-> 0], LatAlt(n, sp[1], sp[2]), f)

\* complete one-level grids, every combination of coordinate sequences
InitCoord ==
    \E nl \in 1..MaxCoordLen, nt \in 1..MaxCoordLen :
        \E lo \in [1..nl -> LonVals], la \in [1..nt -> LatVals] :
            Start(MkGrid(1, nl, [c \in 0..(nl - 1) |-> {}]), lo, la, Num(1))

Init == InitGrid \/ InitLong \/ InitCoord

\* ----------------------------------------------------------------- extrap_sec
Raise(e) ==
    /\ pc' = "error"
    /\ err' = e

\* lines 194-196
ES_Distance ==
    /\ pc = "call"
    /\ LET r == gsw_distance(lon, lat)
       IN  IF r.err /= "none"
           THEN Raise(r.err) /\ UNCHANGED dist
           ELSE dist' = CumDist(r.d) /\ pc' = "seed" /\ UNCHANGED err
    /\ UNCHANGED <<heap, data, lon, lat, fd, todo, ret, input, prevOut, calls>>
    /\ UNCHANGED outsideES

\* lines 197-199: data[:, -2] needs two columns
ES_Seed ==
    /\ pc = "seed"
    /\ IF NCols(heap[data]) < 2
       THEN Raise("IndexError") /\ UNCHANGED <<heap, todo>>
       ELSE /\ heap' = [heap EXCEPT ![data] = Seed(@)]
            /\ todo' = ScanCols(Len(lon))
            /\ pc' = "scan"
            /\ UNCHANGED err
    /\ UNCHANGED <<data, lon, lat, fd, dist, ret, input, prevOut, calls>>
    /\ UNCHANGED outsideES

\* lines 199-204: one iteration of the loop
ES_ScanCol ==
    /\ pc = "scan"
    /\ todo /= << >>
    /\ LET col == Head(todo)
           g == heap[data]
       IN  IF col >= NCols(g)
           THEN Raise("IndexError") /\ UNCHANGED <<heap, todo>>
           ELSE IF ~IsNaN(g[NRows(g) - 1][col])
           THEN todo' = Tail(todo) /\ UNCHANGED <<heap, pc, err>>
           ELSE IF col + 2 >= NCols(g) \/ col + 2 >= DistLen(dist)
           THEN Raise("IndexError") /\ UNCHANGED <<heap, todo>>
           ELSE /\ heap' = [heap EXCEPT ![data] = FillCol(g, dist, col, fd)]
                /\ todo' = Tail(todo)
                /\ UNCHANGED <<pc, err>>
    /\ UNCHANGED <<data, lon, lat, fd, dist, ret, input, prevOut, calls>>
    /\ UNCHANGED outsideES

\* line 205
ES_Return ==
    /\ pc = "scan"
    /\ todo = << >>
    /\ ret' = data
    /\ pc' = "done"
    /\ UNCHANGED <<heap, data, lon, lat, fd, dist, todo, err, input, prevOut, calls>>
    /\ UNCHANGED outsideES

\* the caller applies extrap_sec to the grid it returned, same coordinates and fd
CallAgain ==
    /\ pc = "done"
    /\ calls < MaxCalls
    /\ prevOut' = heap[ret]
    /\ data' = ret
    /\ input' = heap[ret]
    /\ dist' = NoDist
    /\ ret' = 0
    /\ pc' = "call"
    /\ calls' = calls + 1
    /\ UNCHANGED <<heap, lon, lat, fd, todo, err>>
    /\ UNCHANGED outsideES

Next ==
    \/ ES_Distance
    \/ ES_Seed
    \/ ES_ScanCol
    \/ ES_Return
    \/ CallAgain

Spec == Init /\ [][Next]_vars

\* --------------------------------------------------------------- gen_topomask
MaxTopoStations == 4   \* topography family: at most this many stations

PVals == {10, 50, 100}      \* per-station maximum pressures, dbar
KindVals == {"linear", "nearest", "lagrange"}   \* "lagrange" is no kind of interp1d

\* resolutions: 50 km, exactly one degree of latitude, a negative one and zero
DxVals == {Num(50), Rat(MetresPerDegree, 1000), Num(-50), Num(0)}

\* argument shapes: all of one length, h one short, lon a single value
ShapeVals == {"same", "short_h", "one_lon"}

\* no call of extrap_sec is in progress
IdleES ==
    /\ heap = [o \in {CallerObj} |-> NoGrid] /\ data = CallerObj /\ fd = Num(1)
    /\ dist = NoDist /\ todo = << >> /\ ret = 0
    /\ input = NoGrid /\ prevOut = NoGrid /\ calls = 0

StartTopo(hs, lo, la, d, k) ==
    /\ h = hs
    /\ lon = lo
    /\ lat = la
    /\ dx = d
    /\ kind = k
    /\ x = NoArr
    /\ Ih = NoInterp
    /\ xm = NoArr
    /\ hm = NoArr
    /\ pc = "gt_call"
    /\ err = "none"
    /\ IdleES
    /\ IdlePar
    /\ IdleRest

\* stations along a meridian with every choice of their maximum pressures
InitTopo ==
    \E n \in 1..MaxTopoStations, sp \in SpacingVals, d \in DxVals,
       k \in KindVals, shape \in ShapeVals :
        LET m == IF shape = "short_h" /\ n > 1 THEN n - 1 ELSE n
            nl == IF shape = "one_lon" THEN 1 ELSE n
        IN  \E hs \in [0..(m - 1) -> PVals] :
                StartTopo([i \in 0..(m - 1) |-> Num(hs[i])], [i \in 1..nl |-> 0],
                          LatAlt(n, sp[1], sp[2]), d, k)

\* lines 250-252
GT_Distance ==
    /\ pc = "gt_call"
    /\ LET r == gsw_distance(lon, lat)
       IN  IF r.err /= "none"
           THEN Raise(r.err) /\ UNCHANGED x
           ELSE x' = CumDist(r.d) /\ pc' = "gt_depth" /\ UNCHANGED err
    /\ UNCHANGED <<lon, lat, h, dx, kind, Ih, xm, hm>>
    /\ UNCHANGED outsideGT

\* line 253
GT_Depth ==
    /\ pc = "gt_depth"
    /\ h' = [i \in DOMAIN h |-> FNeg(z_from_p(h[i], Mean(lat)))]
    /\ pc' = "gt_interp"
    /\ UNCHANGED <<lon, lat, err, dx, kind, x, Ih, xm, hm>>
    /\ UNCHANGED outsideGT

\* line 254: interp1d's constructor checks the kind, then the two lengths
GT_Interp ==
    /\ pc = "gt_interp"
    /\ IF kind \notin InterpKinds
       THEN Raise("NotImplementedError") /\ UNCHANGED Ih
       ELSE IF ArrLen(x) /= ArrLen(h)
       THEN Raise("ValueError") /\ UNCHANGED Ih
       ELSE /\ Ih' = [kind |-> kind, x |-> x, y |-> h, fill_value |-> Last(h)]
            /\ pc' = "gt_grid"
            /\ UNCHANGED err
    /\ UNCHANGED <<lon, lat, h, dx, kind, x, xm, hm>>
    /\ UNCHANGED outsideGT

\* line 255; x.max() is the last element of the running sum
GT_Grid ==
    /\ pc = "gt_grid"
    /\ IF Sgn(dx) = 0
       THEN (\E e \in ArangeZeroStepErrors : Raise(e)) /\ UNCHANGED xm
       ELSE /\ xm' = arange(FAdd(Last(x), dx), dx)
            /\ pc' = "gt_eval"
            /\ UNCHANGED err
    /\ UNCHANGED <<lon, lat, h, dx, kind, x, Ih, hm>>
    /\ UNCHANGED outsideGT

\* lines 256-258: the pair (xm, hm) is returned
GT_Eval ==
    /\ pc = "gt_eval"
    /\ hm' = [i \in DOMAIN xm |-> Evaluate(Ih, xm[i])]
    /\ pc' = "gt_done"
    /\ UNCHANGED <<lon, lat, err, h, dx, kind, x, Ih, xm>>
    /\ UNCHANGED outsideGT

NextTopo ==
    \/ GT_Distance
    \/ GT_Depth
    \/ GT_Interp
    \/ GT_Grid
    \/ GT_Eval

SpecTopo == InitTopo /\ [][NextTopo]_vars

\* ------------------------------------------------------ two invocations at once
MaxParStations == 4   \* concurrent family: transects of 3..MaxParStations stations

Invocations == {1, 2}

\* the frame of the running invocation: arguments, locals, position, outcome
Frame ==
    [lon |-> lon, lat |-> lat, pc |-> pc, err |-> err,
     data |-> data, fd |-> fd, dist |-> dist, todo |-> todo, ret |-> ret,
     input |-> input, prevOut |-> prevOut, calls |-> calls,
     h |-> h, dx |-> dx, kind |-> kind, x |-> x, Ih |-> Ih, xm |-> xm, hm |-> hm]

\* `dist` kept at module level: a resumed invocation finds the last value bound
ModuleDist(f) == dist

\* line 196 binds `dist` as a local name: a resumed invocation finds its own
LocalDist(f) == f.dist

\* the loop iterator kept at module level
ModuleTodo(f) == todo

\* line 199: the loop's iterator belongs to the invocation
LocalTodo(f) == f.todo

\* a call extrap_sec(data, lon, lat, fd) on the array object obj holding g
ESFrame(obj, g, lo, la, f) ==
    [lon |-> lo, lat |-> la, pc |-> "call", err |-> "none",
     data |-> obj, fd |-> f, dist |-> NoDist, todo |-> << >>, ret |-> 0,
     input |-> g, prevOut |-> NoGrid, calls |-> 1,
     h |-> NoArr, dx |-> Num(1), kind |-> "linear", x |-> NoArr, Ih |-> NoInterp,
     xm |-> NoArr, hm |-> NoArr]

\* a call gen_topomask(h, lon, lat, dx, kind); obj is not used by it, and
\* `input` keeps the pressures handed in
TopoFrame(obj, hs, lo, la, d, k) ==
    [lon |-> lo, lat |-> la, pc |-> "gt_call", err |-> "none",
     data |-> obj, fd |-> Num(1), dist |-> NoDist, todo |-> << >>, ret |-> 0,
     input |-> hs, prevOut |-> NoGrid, calls |-> 1,
     h |-> hs, dx |-> d, kind |-> k, x |-> NoArr, Ih |-> NoInterp,
     xm |-> NoArr, hm |-> NoArr]

\* a one-level grid whose first t stations did not reach the level
ShadowGrid(n, t) == MkGrid(1, n, [c \in 0..(n - 1) |-> IF c < t THEN {0} ELSE {}])

ParSpacings == {<<1, 1>>, <<1, 2>>}
ShadowVals == {0, 2, 3}     \* stations in the shadow: none, two, three

\* the calls an invocation may be: frames for the array object obj
ParCalls(obj) ==
    {ESFrame(obj, ShadowGrid(n, t), [i \in 1..n |-> 0], LatAlt(n, sp[1], sp[2]), Num(1)) :
        n \in 3..MaxParStations, t \in ShadowVals, sp \in ParSpacings}
    \cup
    {TopoFrame(obj, [i \in 0..2 |-> Num(10 + 40 * i)], <<0, 0, 0>>,
               LatAlt(3, sp[1], sp[2]), Num(50), k) :
        sp \in ParSpacings, k \in InterpKinds}

\* each invocation owns the array object of its number
InitPar ==
    \E a \in ParCalls(1), b \in ParCalls(2) :
        /\ heap = (1 :> a.input) @@ (2 :> b.input)
        /\ running = 1
        /\ parked = (2 :> b)
        /\ lon = a.lon /\ lat = a.lat /\ pc = a.pc /\ err = a.err
        /\ data = a.data /\ fd = a.fd /\ dist = a.dist /\ todo = a.todo
        /\ ret = a.ret /\ input = a.input
        /\ h = a.h /\ dx = a.dx /\ kind = a.kind /\ x = a.x /\ Ih = a.Ih
        /\ xm = a.xm /\ hm = a.hm
        /\ prevOut = a.prevOut /\ calls = a.calls
        /\ IdleRest

\* the interpreter suspends the running invocation between two steps and
\* resumes invocation i
Switch(i) ==
    /\ i \in DOMAIN parked
    /\ parked' = [j \in (DOMAIN parked \ {i}) \cup {running} |->
                     IF j = running THEN Frame ELSE parked[j]]
    /\ running' = i
    /\ lon' = parked[i].lon /\ lat' = parked[i].lat
    /\ pc' = parked[i].pc /\ err' = parked[i].err
    /\ data' = parked[i].data /\ fd' = parked[i].fd
    /\ dist' = LocalDist(parked[i]) /\ todo' = LocalTodo(parked[i])
    /\ ret' = parked[i].ret /\ input' = parked[i].input
    /\ h' = parked[i].h /\ dx' = parked[i].dx /\ kind' = parked[i].kind
    /\ x' = parked[i].x /\ Ih' = parked[i].Ih
    /\ xm' = parked[i].xm /\ hm' = parked[i].hm
    /\ prevOut' = parked[i].prevOut /\ calls' = parked[i].calls
    /\ UNCHANGED <<heap, restVars>>

IsTopo(f) == f.h /= NoArr
Finished(f) == f.pc \in {"done", "gt_done", "error"}

\* what the caller of invocation f holds once it has ended: how it ended, the
\* contents of the array it passed to extrap_sec, the mask of gen_topomask
Outcome(f) ==
    [pc |-> f.pc, err |-> f.err,
     g |-> IF IsTopo(f) THEN NoGrid ELSE heap[f.data],
     xm |-> f.xm, hm |-> f.hm]

\* the caller of the running invocation, its call ended, makes the same call
\* again: an array equal to the one it passed before, the same other arguments
CallSame ==
    /\ Finished(Frame)
    /\ calls < MaxCalls
    /\ prevOut' = Outcome(Frame)
    /\ calls' = calls + 1
    /\ heap' = [heap EXCEPT ![data] = IF IsTopo(Frame) THEN @ ELSE input]
    /\ pc' = IF IsTopo(Frame) THEN "gt_call" ELSE "call"
    /\ err' = "none"
    /\ dist' = NoDist /\ todo' = << >> /\ ret' = 0
    /\ h' = IF IsTopo(Frame) THEN input ELSE h
    /\ x' = NoArr /\ Ih' = NoInterp /\ xm' = NoArr /\ hm' = NoArr
    /\ UNCHANGED <<lon, lat, data, fd, input, dx, kind, parVars, restVars>>

NextPar ==
    \/ ES_Distance
    \/ ES_Seed
    \/ ES_ScanCol
    \/ ES_Return
    \/ GT_Distance
    \/ GT_Depth
    \/ GT_Interp
    \/ GT_Grid
    \/ GT_Eval
    \/ CallSame
    \/ \E i \in Invocations : Switch(i)

SpecPar == InitPar /\ [][NextPar]_vars

\* ------------------------------------------------------------------ claims
\* the exception a Python validation of the arguments raises
IsInvalidInputError(e) == e = "ValueError"

WellFormed == Len(lon) = Len(lat)

Cells(g) == {<<r, c>> : r \in DOMAIN g, c \in DOMAIN g[0]}

\* C1: every cell that was not missing when the call began holds the same value
\* in the array extrap_sec works on, at every step and in the returned grid.
C1_PresentCellsKept ==
    /\ \A rc \in Cells(input) :
          ~IsNaN(input[rc[1]][rc[2]]) => heap[data][rc[1]][rc[2]] = input[rc[1]][rc[2]]
    /\ pc = "done" =>
          \A rc \in Cells(input) :
              ~IsNaN(input[rc[1]][rc[2]]) => heap[ret][rc[1]][rc[2]] = input[rc[1]][rc[2]]

\* a call returned after the scan filled a missing cell of a column that also
\* holds a measurement, and after the seed filled one too
C1_Witness ==
    /\ pc = "done"
    /\ calls = 1
    /\ \E rc \in Cells(input) :
          /\ rc[2] < NCols(input) - 2
          /\ IsNaN(input[rc[1]][rc[2]])
          /\ IsNum(heap[ret][rc[1]][rc[2]])
          /\ \E r2 \in DOMAIN input : ~IsNaN(input[r2][rc[2]])
    /\ \E r \in DOMAIN input :
          /\ IsNaN(input[r][NCols(input) - 2])
          /\ IsNum(heap[ret][r][NCols(input) - 2])
          /\ \E r2 \in DOMAIN input : ~IsNaN(input[r2][NCols(input) - 2])

\* C2: a call on a transect of fewer than 3 stations never returns a grid, and
\* when it has failed the failure is an invalid-input error.
C2_ShortTransectFails ==
    (WellFormed /\ NCols(input) < 3) =>
        /\ pc /= "done"
        /\ pc = "error" => IsInvalidInputError(err)

\* C3: when the call returns, the caller's array still holds the values it held
\* when the call began (extrap_sec worked on a copy of its own).
C3_InputNotMutated ==
    pc = "done" => heap[CallerObj] = input

\* C4: a second application of extrap_sec, to the grid the first one returned,
\* returns a grid equal cell for cell to the first output.
C4_Idempotent ==
    (pc = "done" /\ calls >= 2) => heap[ret] = prevOut

\* the second call returned; the first output holds a value written by the scan
\* and a column, still missing at the bottom, that the second call scans again
C4_Witness ==
    /\ pc = "done"
    /\ calls = 2
    /\ \E rc \in Cells(prevOut) :
          /\ rc[2] >= 1
          /\ rc[2] < NCols(prevOut) - 2
          /\ IsNum(prevOut[rc[1]][rc[2]])
          /\ prevOut[rc[1]][rc[2]] /= CellVal(rc[1], rc[2])
    /\ \E c \in 1..(NCols(prevOut) - 3) : IsNaN(prevOut[NRows(prevOut) - 1][c])

\* C5: with fd = 0, a loop iteration that fills column col gives every missing
\* cell of that column the value of the same row in column col + 1.
C5_FlatFill ==
    [][(/\ pc = "scan" /\ pc' = "scan"
        /\ todo /= << >>
        /\ fd = Num(0)
        /\ IsNaN(heap[data][NRows(heap[data]) - 1][Head(todo)]))
       => \A r \in DOMAIN heap[data] :
              IsNaN(heap[data][r][Head(todo)])
                  => heap'[data][r][Head(todo)] = heap[data][r][Head(todo) + 1]]_vars

\* C6: when the call has ended in an error, the caller's array holds cell for
\* cell the values it held when the call began.
C6_FailedCallLeavesGrid ==
    pc = "error" => heap[CallerObj] = input

RECURSIVE PathMetres(_)
PathMetres(i) ==
    IF i = 0 THEN 0
    ELSE PathMetres(i - 1) + Haversine(lon[i], lat[i], lon[i + 1], lat[i + 1])

\* C8: element i of the distance vector is the length of the path through the
\* stations 0..i, the sum of the i segment distances, in kilometres.
C8_PathLength ==
    (WellFormed /\ dist /= NoDist) =>
        \A i \in 0..(DistLen(dist) - 1) : dist[i] = Rat(PathMetres(i), 1000)

\* a path that goes out and comes back to its first station: the distance to
\* the last station is twice the segment, the direct distance is 0
C8_Witness ==
    /\ WellFormed
    /\ dist /= NoDist
    /\ Len(lon) = 3
    /\ lon[1] = lon[3] /\ lat[1] = lat[3]
    /\ Haversine(lon[1], lat[1], lon[3], lat[3]) = 0
    /\ Haversine(lon[1], lat[1], lon[2], lat[2]) > 0
    /\ dist[2] = Rat(2 * Haversine(lon[1], lat[1], lon[2], lat[2]), 1000)

\* C9: for a single station, once the distance step has run the distance
\* vector is [0], and the call does not end in an index error.
C9_SingleStation ==
    (Len(lon) = 1 /\ Len(lat) = 1 /\ pc /= "call") =>
        /\ DistLen(dist) = 1
        /\ dist[0] = Num(0)
        /\ err /= "IndexError"

BadCoordinates ==
    \/ Len(lon) /= Len(lat)
    \/ \E i \in 1..Len(lon) : lon[i] < -180 \/ lon[i] > 180
    \/ \E i \in 1..Len(lat) : lat[i] < -90 \/ lat[i] > 90

\* C10: with sequences of different lengths or a coordinate out of range, the
\* distance step fails with an invalid-input error and produces no vector.
C10_BadCoordinatesRejected ==
    (BadCoordinates /\ pc /= "call") =>
        /\ pc = "error"
        /\ IsInvalidInputError(err)
        /\ dist = NoDist

\* ------------------------------------------------------ claims on gen_topomask
\* C11: for dx > 0 the grid xm starts at 0, its points are dx apart, and its last
\* point is the smallest multiple of dx that is >= every distance: it reaches the
\* largest distance and lies less than one step beyond it.
C11_MaskGrid ==
    (pc \in {"gt_eval", "gt_done"} /\ Sgn(dx) > 0) =>
        /\ ArrLen(xm) >= 1
        /\ xm[0] = Num(0)
        /\ \A i \in 1..(ArrLen(xm) - 1) : FSub(xm[i], xm[i - 1]) = dx
        /\ \A i \in DOMAIN x : FLeq(x[i], Last(xm))
        /\ \E i \in DOMAIN x : FLt(FSub(Last(xm), dx), x[i])

\* the largest distance is twice dx, and the grid of three points ends on it
C11_Witness ==
    /\ pc = "gt_done"
    /\ Sgn(dx) > 0
    /\ ArrLen(xm) = 3
    /\ Sgn(Last(x)) > 0
    /\ Last(xm) = Last(x)

\* C12: every point of xm beyond the last station's distance has in hm the
\* depth of the last station, whatever the interpolation kind.
C12_ConstantBeyondLast ==
    pc = "gt_done" =>
        \A i \in DOMAIN xm : FLt(Last(x), xm[i]) => hm[i] = Last(h)

\* a mask with a point beyond the last station, whose depth differs from the
\* first station's and from the one before it
C12_Witness ==
    /\ pc = "gt_done"
    /\ ArrLen(h) >= 3
    /\ Last(h) /= h[0]
    /\ Last(h) /= h[ArrLen(h) - 2]
    /\ \E i \in DOMAIN xm : FLt(Last(x), xm[i]) /\ hm[i] = Last(h)

BadTopoArguments ==
    \/ ArrLen(h) /= Len(lon)
    \/ ArrLen(h) /= Len(lat)
    \/ Len(lon) /= Len(lat)
    \/ Sgn(dx) <= 0

\* C13: with h, lon and lat of different lengths, or dx <= 0, the call returns
\* no mask (it does not reach its return statement).
C13_BadArgumentsRejected ==
    BadTopoArguments => pc /= "gt_done"

NonDecreasing(a) ==
    \A i \in 1..(ArrLen(a) - 1) : IsNum(a[i - 1]) /\ IsNum(a[i]) /\ FLeq(a[i - 1], a[i])

\* C14: with linear interpolation and per-station maximum pressures that do not
\* decrease along the transect, hm does not decrease along xm.
C14_MonotoneMask ==
    (pc = "gt_done" /\ kind = "linear" /\ NonDecreasing(Ih.y)) => NonDecreasing(hm)

\* C15: with an unsupported interpolation kind the call fails, once it has
\* taken a step, with that error and with no distance, depth or grid computed.
C15_KindCheckedFirst ==
    (kind \notin InterpKinds /\ pc /= "gt_call") =>
        /\ pc = "error"
        /\ err = "NotImplementedError"
        /\ x = NoArr
        /\ xm = NoArr

\* -------------------------------------------- claims on calls made side by side
FrameOf(i) == IF i = running THEN Frame ELSE parked[i]

\* the scan of extrap_sec run to its end on a grid of its own
RECURSIVE ScanAlone(_, _, _, _)
ScanAlone(g, dv, cols, f) ==
    IF cols = << >> THEN [pc |-> "done", err |-> "none", g |-> g]
    ELSE LET col == Head(cols)
         IN  IF col >= NCols(g) THEN [pc |-> "error", err |-> "IndexError", g |-> g]
             ELSE IF ~IsNaN(g[NRows(g) - 1][col]) THEN ScanAlone(g, dv, Tail(cols), f)
             ELSE IF col + 2 >= NCols(g) \/ col + 2 >= DistLen(dv)
             THEN [pc |-> "error", err |-> "IndexError", g |-> g]
             ELSE ScanAlone(FillCol(g, dv, col, f), dv, Tail(cols), f)

\* what extrap_sec(g, lo, la, f) gives when nothing else runs
ExtrapSecAlone(g, lo, la, f) ==
    LET r == gsw_distance(lo, la)
        o == IF r.err /= "none" THEN [pc |-> "error", err |-> r.err, g |-> g]
             ELSE IF NCols(g) < 2 THEN [pc |-> "error", err |-> "IndexError", g |-> g]
             ELSE ScanAlone(Seed(g), CumDist(r.d), ScanCols(Len(lo)), f)
    IN  [pc |-> o.pc, err |-> o.err, g |-> o.g, xm |-> NoArr, hm |-> NoArr]

\* what gen_topomask(hs, lo, la, d, k) gives when nothing else runs, d /= 0
TopoAlone(hs, lo, la, d, k) ==
    LET r == gsw_distance(lo, la)
        xs == CumDist(r.d)
        ys == [i \in DOMAIN hs |-> FNeg(z_from_p(hs[i], Mean(la)))]
        I == [kind |-> k, x |-> xs, y |-> ys, fill_value |-> Last(ys)]
        grid == arange(FAdd(Last(xs), d), d)
        fail(e) == [pc |-> "error", err |-> e, g |-> NoGrid, xm |-> NoArr, hm |-> NoArr]
    IN  IF r.err /= "none" THEN fail(r.err)
        ELSE IF k \notin InterpKinds THEN fail("NotImplementedError")
        ELSE IF ArrLen(xs) /= ArrLen(ys) THEN fail("ValueError")
        ELSE [pc |-> "gt_done", err |-> "none", g |-> NoGrid,
              xm |-> grid, hm |-> [i \in DOMAIN grid |-> Evaluate(I, grid[i])]]

Alone(f) ==
    IF IsTopo(f) THEN TopoAlone(f.input, f.lon, f.lat, f.dx, f.kind)
    ELSE ExtrapSecAlone(f.input, f.lon, f.lat, f.fd)

C17_InterleavingIndependent ==
    \A i \in Invocations :
        Finished(FrameOf(i)) => Outcome(FrameOf(i)) = Alone(FrameOf(i))

\* both invocations are in the middle of their scans, on transects with
\* different station spacing, and each has already written into its own array
C17_Witness ==
    /\ \A i \in Invocations :
          /\ FrameOf(i).pc = "scan"
          /\ FrameOf(i).todo /= << >>
          /\ heap[i] /= FrameOf(i).input
    /\ FrameOf(1).dist /= FrameOf(2).dist

\* --------------------------------------------------------------- colormaps.py
\* numpy arrays of one or two dimensions, indexed from 0
A1(v) == [nd |-> 1, v |-> v]
A2(v) == [nd |-> 2, v |-> v]

\* a.shape
Shape(a) ==
    IF a.nd = 1 THEN <<ArrLen(a.v)>>
    ELSE <<ArrLen(a.v), IF ArrLen(a.v) = 0 THEN 0 ELSE ArrLen(a.v[0])>>

\* a.T: the axes swapped; an array of one dimension is its own transpose
Transpose(a) ==
    IF a.nd = 1 THEN a
    ELSE A2([c \in 0..(Shape(a)[2] - 1) |-> [r \in 0..(Shape(a)[1] - 1) |-> a.v[r][c]]])

\* np.flipud(a): the entries along the first axis in reverse order
flipud(a) == [a EXCEPT !.v = [i \in DOMAIN a.v |-> a.v[ArrLen(a.v) - 1 - i]]]

\* a / 255.
Over255(a) ==
    IF a.nd = 1 THEN A1([i \in DOMAIN a.v |-> FDiv(a.v[i], Num(255))])
    ELSE A2([r \in DOMAIN a.v |-> [c \in DOMAIN a.v[r] |-> FDiv(a.v[r][c], Num(255))]])

\* table lengths m for which every entry of phasemap_cm(m) is a fraction
PhaseSizes == {1, 2, 3, 6}

\* lines 97-116, for m in PhaseSizes. The numbers are a + b*sqrt(3) with
\* fractions a and b; complex numbers are pairs [re, im] of them.
phasemap_cm(m) ==
    LET S(a, b) == [a |-> a, b |-> b]
        SAdd(p, q) == S(FAdd(p.a, q.a), FAdd(p.b, q.b))
        SNeg(p) == S(FNeg(p.a), FNeg(p.b))
        SSub(p, q) == SAdd(p, SNeg(q))
        SMul(p, q) == S(FAdd(FMul(p.a, q.a), FMul(Num(3), FMul(p.b, q.b))),
                        FAdd(FMul(p.a, q.b), FMul(p.b, q.a)))
        SSgn(p) ==
            IF Sgn(p.a) >= 0 /\ Sgn(p.b) >= 0
            THEN (IF Sgn(p.a) = 0 /\ Sgn(p.b) = 0 THEN 0 ELSE 1)
            ELSE IF Sgn(p.a) <= 0 /\ Sgn(p.b) <= 0 THEN -1
            ELSE IF FLt(FMul(Num(3), FMul(p.b, p.b)), FMul(p.a, p.a)) THEN Sgn(p.a)
            ELSE Sgn(p.b)
        SAbs(p) == IF SSgn(p) < 0 THEN SNeg(p) ELSE p
        \* p / q when it is a fraction (NaN stands for a quotient that is none)
        SQuot(p, q) ==
            LET num == SMul(p, S(q.a, FNeg(q.b)))
                den == FSub(FMul(q.a, q.a), FMul(Num(3), FMul(q.b, q.b)))
            IN  IF Sgn(num.b) = 0 THEN FDiv(num.a, den) ELSE NaN
        C(re, im) == [re |-> re, im |-> im]
        CSub(u, w) == C(SSub(u.re, w.re), SSub(u.im, w.im))
        CMul(u, w) == C(SSub(SMul(u.re, w.re), SMul(u.im, w.im)),
                        SAdd(SMul(u.re, w.im), SMul(u.im, w.re)))
        conj(u) == C(u.re, SNeg(u.im))
        \* cos and sin of j sixths of a turn
        cos6(j) == IF j = 0 THEN S(Num(1), Num(0))
                   ELSE IF j = 3 THEN S(Num(-1), Num(0))
                   ELSE IF j \in {1, 5} THEN S(Rat(1, 2), Num(0))
                   ELSE S(Rat(-1, 2), Num(0))
        sin6(j) == IF j \in {0, 3} THEN S(Num(0), Num(0))
                   ELSE IF j \in {1, 2} THEN S(Num(0), Rat(1, 2))
                   ELSE S(Num(0), Rat(-1, 2))
        \* np.exp(1j * theta[k]), theta = 2 * np.pi * np.arange(m) / m
        circ(k) == C(cos6(((6 * k) \div m) % 6), sin6(((6 * k) \div m) % 6))
        vred == C(S(Num(-2), Num(0)), S(Num(0), Num(0)))
        vgreen == C(S(Num(1), Num(0)), S(Num(0), Num(-1)))
        vblue == C(S(Num(1), Num(0)), S(Num(0), Num(1)))
        vredc(k) == CSub(vred, circ(k))
        vgreenc(k) == CSub(vgreen, circ(k))
        vbluec(k) == CSub(vblue, circ(k))
        red(k) == SAbs(CMul(vgreenc(k), conj(vbluec(k))).im)
        green(k) == SAbs(CMul(vbluec(k), conj(vredc(k))).im)
        blue(k) == SAbs(CMul(vredc(k), conj(vgreenc(k))).im)
        norm == SAbs(CMul(CSub(vred, vgreen), conj(CSub(vred, vblue))).im)
        scaled(p) == SQuot(SMul(S(Rat(3, 2), Num(0)), p), norm)
        \* np.vstack([r, g, b]) of three vectors of one length
        vstack(r, g, b) == A2([i \in 0..2 |-> IF i = 0 THEN r ELSE IF i = 1 THEN g ELSE b])
        cmap == vstack([k \in 0..(m - 1) |-> scaled(red(k))],
                       [k \in 0..(m - 1) |-> scaled(green(k))],
                       [k \in 0..(m - 1) |-> scaled(blue(k))])
    IN  Over255(Transpose(cmap))

\* colorsys.hsv_to_rgb
hsv_to_rgb(hh, ss, vv) ==
    LET h6 == FMul(hh, Num(6))
        i == h6.n \div h6.d
        f == FSub(h6, Num(i))
        pp == FMul(vv, FSub(Num(1), ss))
        qq == FMul(vv, FSub(Num(1), FMul(ss, f)))
        tt == FMul(vv, FSub(Num(1), FMul(ss, FSub(Num(1), f))))
    IN  IF Sgn(ss) = 0 THEN <<vv, vv, vv>>
        ELSE IF i % 6 = 0 THEN <<vv, tt, pp>>
        ELSE IF i % 6 = 1 THEN <<qq, vv, pp>>
        ELSE IF i % 6 = 2 THEN <<pp, vv, tt>>
        ELSE IF i % 6 = 3 THEN <<pp, qq, vv>>
        ELSE IF i % 6 = 4 THEN <<tt, pp, vv>>
        ELSE <<vv, pp, qq>>

\* lines 119-145. exp, sawtooth and cos are given where their value is a
\* fraction: at x = 0, which is all of x for the default n = 1.
zebra_cm(a, n, m) ==
    LET exp(t) == IF Sgn(t) = 0 THEN Num(1) ELSE NaN
        \* sawtooth(2 pi t): from -1 up to 1 over each whole t
        sawtooth2pi(t) == FSub(FMul(Num(2), FSub(t, Num(t.n \div t.d))), Num(1))
        cos2pi(t) == IF t.d = 1 THEN Num(1) ELSE IF t.d = 2 THEN Num(-1) ELSE NaN
        xs == [k \in 0..(n - 1) |-> Num(k)]
        hue(k) == exp(FDiv(FMul(Num(-3), xs[k]), Num(n)))
        sat(k) == FAdd(m, FMul(FSub(Num(1), m),
                      FMul(Rat(1, 2), FAdd(Num(1),
                          sawtooth2pi(FDiv(xs[k], FDiv(Num(n), Num(a))))))))
        val(k) == FAdd(m, FMul(FMul(FSub(Num(1), m), Rat(1, 2)),
                      FAdd(Num(1), cos2pi(FDiv(xs[k],
                          FDiv(FDiv(Num(n), Num(a)), Num(2)))))))
        rgb(k) == hsv_to_rgb(hue(k), sat(k), val(k))
        cmap == A2([k \in 0..(n - 1) |-> [c \in 0..2 |-> rgb(k)[c + 1]]])
    IN  Over255(Transpose(cmap))

\* np.interp(v, xp, fp) for increasing xp (sequences of fractions)
interp(v, xp, fp) ==
    IF FLeq(v, xp[1]) THEN fp[1]
    ELSE IF FLeq(xp[Len(xp)], v) THEN fp[Len(fp)]
    ELSE LET j == CHOOSE i \in 1..(Len(xp) - 1) : FLeq(xp[i], v) /\ FLt(v, xp[i + 1])
         IN  FAdd(fp[j], FMul(FSub(v, xp[j]),
                 FDiv(FSub(fp[j + 1], fp[j]), FSub(xp[j + 1], xp[j]))))

\* lines 158-175
avhrr_cm(m) ==
    LET x_ == [k \in 0..(m - 2) |-> FDiv(Num(k), Num(m - 1))]
        xr == <<Num(0), Rat(1, 5), Rat(2, 5), Rat(1, 2), Rat(3, 5), Rat(4, 5), Num(1)>>
        rr == <<Rat(1, 2), Num(1), Num(1), Rat(1, 2), Rat(1, 2), Num(0), Rat(1, 2)>>
        xg == <<Num(0), Rat(2, 5), Rat(3, 5), Num(1)>>
        gg == <<Num(0), Num(1), Num(1), Num(0)>>
        xb == <<Num(0), Rat(1, 5), Rat(2, 5), Rat(1, 2), Rat(3, 5), Rat(4, 5), Num(1)>>
        bb == <<Num(0), Num(0), Rat(1, 2), Rat(1, 2), Num(1), Num(1), Rat(1, 2)>>
        r == [k \in DOMAIN x_ |-> interp(x_[k], xr, rr)]
        g == [k \in DOMAIN x_ |-> interp(x_[k], xg, gg)]
        b == [k \in DOMAIN x_ |-> interp(x_[k], xb, bb)]
        \* np.r_[r, g, b]: the three vectors one after the other
        r_(rv, gv, bv) ==
            A1([i \in 0..(ArrLen(rv) + ArrLen(gv) + ArrLen(bv) - 1) |->
                   IF i < ArrLen(rv) THEN rv[i]
                   ELSE IF i < ArrLen(rv) + ArrLen(gv) THEN gv[i - ArrLen(rv)]
                   ELSE bv[i - ArrLen(rv) - ArrLen(gv)]])
    IN  Transpose(flipud(r_(r, g, b)))

\* lines 184-511: the tables written out as three rows (red, green, blue) of
\* bytes, before `.T / 255.`
LiteralBytes ==
    [
     cbathy |-> <<
        <<
          8, 8, 8, 8, 8, 8, 8, 8, 8, 8, 8, 8, 8, 9, 9, 9, 9, 9, 9, 9, 9, 9, 9, 9, 9, 9, 9, 9, 9,
          9, 9, 9, 9, 9, 9, 9, 10, 10, 10, 10, 10, 10, 10, 10, 10, 10, 10, 11, 11, 10, 9, 8, 8,
          7, 6, 5, 5, 4, 3, 2, 2, 1, 0, 0 >>,
        <<
          241, 237, 234, 231, 228, 225, 222, 218, 215, 212, 209, 204, 199, 194, 190, 185, 180,
          175, 171, 166, 161, 160, 158, 157, 156, 154, 153, 152, 150, 149, 148, 146, 145, 144,
          142, 141, 140, 134, 129, 124, 119, 114, 109, 103, 98, 93, 88, 83, 77, 72, 67, 62, 57,
          51, 46, 41, 36, 31, 25, 20, 15, 10, 5, 0 >>,
        <<
          255, 255, 255, 255, 255, 255, 255, 255, 255, 255, 255, 255, 255, 255, 255, 255, 255,
          255, 255, 255, 255, 255, 255, 255, 255, 255, 255, 255, 255, 255, 255, 255, 255, 255,
          255, 255, 255, 255, 255, 255, 255, 255, 255, 255, 255, 255, 255, 255, 255, 247, 240,
          232, 225, 217, 210, 202, 195, 188, 180, 173, 165, 158, 150, 143 >> >>,
     coolavhrrmap |-> <<
        <<
          255, 255, 255, 255, 255, 255, 255, 255, 255, 255, 250, 250, 245, 245, 237, 237, 212,
          212, 187, 187, 162, 162, 137, 137, 112, 112, 87, 87, 62, 62, 0, 0, 0, 0, 0, 0, 0, 0,
          0, 0, 0, 0, 0, 0, 0, 0, 0, 0, 0, 0, 0, 0, 0, 0, 0, 0, 0, 0, 0, 0, 0, 0, 0, 0, 0, 0, 0,
          0, 0, 0, 0, 0, 0, 0, 0, 0, 0, 0, 0, 0, 0, 0, 0, 0, 0, 0, 0, 0, 0, 0, 0, 0, 0, 0, 0, 0,
          0, 0, 0, 3, 7, 11, 15, 19, 23, 27, 31, 35, 39, 43, 47, 51, 55, 59, 63, 67, 71, 75, 79,
          83, 87, 91, 95, 99, 103, 107, 111, 115, 119, 123, 127, 131, 135, 139, 143, 147, 151,
          155, 159, 163, 167, 171, 175, 179, 183, 187, 191, 195, 199, 203, 207, 211, 215, 219,
          223, 227, 231, 235, 239, 243, 247, 251, 255, 255, 255, 255, 255, 255, 255, 255, 255,
          255, 255, 255, 255, 255, 255, 255, 255, 255, 255, 255, 255, 255, 255, 255, 255, 255,
          255, 255, 255, 255, 255, 255, 255, 255, 255, 255, 255, 255, 255, 255, 255, 255, 255,
          255, 255, 255, 255, 255, 255, 255, 255, 255, 255, 255, 255, 255, 255, 255, 255, 255,
          255, 255, 255, 255, 255, 250, 246, 241, 237, 233, 228, 224, 219, 215, 211, 206, 202,
          197, 193, 189, 184, 180, 175, 171, 167, 162, 158, 153, 149, 145, 140, 136, 131, 131 >>,
        <<
          45, 41, 37, 34, 30, 26, 23, 19, 30, 19, 30, 19, 30, 19, 30, 19, 30, 19, 30, 19, 30,
          19, 30, 19, 30, 19, 30, 19, 30, 19, 0, 0, 0, 0, 3, 7, 11, 15, 19, 23, 27, 31, 35, 39,
          43, 47, 51, 55, 59, 63, 67, 71, 75, 79, 83, 87, 91, 95, 99, 103, 107, 111, 115, 119,
          123, 127, 131, 135, 139, 143, 147, 151, 155, 159, 163, 167, 171, 175, 179, 183, 187,
          191, 195, 199, 203, 207, 211, 215, 219, 223, 227, 231, 235, 239, 243, 247, 251, 255,
          255, 255, 255, 255, 255, 255, 255, 255, 255, 255, 255, 255, 255, 255, 255, 255, 255,
          255, 255, 255, 255, 255, 255, 255, 255, 255, 255, 255, 255, 255, 255, 255, 255, 255,
          255, 255, 255, 255, 255, 255, 255, 255, 255, 255, 255, 255, 255, 255, 255, 255, 255,
          255, 255, 255, 255, 255, 255, 255, 255, 255, 255, 255, 255, 255, 255, 251, 247, 243,
          239, 235, 231, 227, 223, 219, 215, 211, 207, 203, 199, 195, 191, 187, 183, 179, 175,
          171, 167, 163, 159, 155, 151, 147, 143, 139, 135, 131, 127, 123, 119, 115, 111, 107,
          103, 99, 95, 91, 87, 83, 79, 75, 71, 67, 63, 59, 55, 51, 47, 43, 39, 35, 31, 27, 23,
          19, 15, 11, 7, 3, 0, 0, 0, 0, 0, 0, 0, 0, 0, 0, 0, 0, 0, 0, 0, 0, 0, 0, 0, 0, 0, 0, 0,
          0, 0, 0, 0, 0, 0, 0 >>,
        <<
          142, 155, 168, 181, 194, 206, 219, 232, 194, 232, 194, 232, 194, 232, 194, 232, 194,
          232, 194, 232, 194, 232, 194, 232, 194, 232, 194, 232, 194, 232, 247, 251, 255, 255,
          255, 255, 255, 255, 255, 255, 255, 255, 255, 255, 255, 255, 255, 255, 255, 255, 255,
          255, 255, 255, 255, 255, 255, 255, 255, 255, 255, 255, 255, 255, 255, 255, 255, 255,
          255, 255, 255, 255, 255, 255, 255, 255, 255, 255, 255, 255, 255, 255, 255, 255, 255,
          255, 255, 255, 255, 255, 255, 255, 255, 255, 255, 255, 255, 255, 255, 251, 247, 243,
          239, 235, 231, 227, 223, 219, 215, 211, 207, 203, 199, 195, 191, 187, 183, 179, 175,
          171, 167, 163, 159, 155, 151, 147, 143, 139, 135, 131, 127, 123, 119, 115, 111, 107,
          103, 99, 95, 91, 87, 83, 79, 75, 71, 67, 63, 59, 55, 51, 47, 43, 39, 35, 31, 27, 23,
          19, 15, 11, 7, 3, 0, 0, 0, 0, 0, 0, 0, 0, 0, 0, 0, 0, 0, 0, 0, 0, 0, 0, 0, 0, 0, 0, 0,
          0, 0, 0, 0, 0, 0, 0, 0, 0, 0, 0, 0, 0, 0, 0, 0, 0, 0, 0, 0, 0, 0, 0, 0, 0, 0, 0, 0, 0,
          0, 0, 0, 0, 0, 0, 0, 0, 0, 0, 0, 0, 0, 0, 0, 0, 0, 0, 0, 0, 0, 0, 0, 0, 0, 0, 0, 0, 0,
          0, 0, 0, 0, 0, 0, 0, 0, 0, 0, 0, 0, 0 >> >>,
     rscolmap |-> <<
        <<
          0, 0, 0, 0, 0, 0, 0, 0, 0, 0, 0, 0, 0, 0, 0, 0, 0, 0, 0, 0, 0, 0, 0, 0, 0, 0, 0, 0, 0,
          0, 0, 0, 0, 0, 0, 0, 0, 0, 0, 0, 0, 0, 0, 0, 0, 0, 0, 0, 0, 0, 0, 0, 0, 0, 0, 0, 0, 0,
          0, 0, 0, 0, 0, 0, 0, 0, 0, 0, 0, 0, 0, 0, 0, 0, 0, 0, 0, 0, 0, 0, 0, 0, 0, 0, 0, 0, 0,
          0, 0, 0, 0, 0, 0, 0, 0, 0, 0, 0, 0, 0, 0, 0, 0, 0, 0, 0, 0, 0, 0, 0, 0, 0, 0, 0, 0, 0,
          0, 0, 0, 0, 0, 0, 0, 0, 0, 0, 0, 0, 0, 0, 0, 0, 0, 0, 0, 15, 30, 45, 60, 75, 90, 105,
          120, 128, 136, 144, 152, 160, 168, 176, 184, 188, 192, 196, 200, 204, 208, 212, 217,
          219, 221, 223, 226, 228, 230, 232, 235, 236, 238, 239, 241, 243, 244, 246, 248, 248,
          249, 250, 251, 251, 252, 253, 254, 254, 254, 254, 254, 254, 254, 254, 255, 255, 255,
          255, 254, 254, 254, 254, 253, 252, 251, 250, 249, 248, 247, 246, 244, 243, 241, 240,
          238, 237, 235, 234, 232, 231, 229, 228, 226, 224, 223, 221, 219, 218, 216, 214, 212,
          210, 208, 206, 204, 202, 200, 198, 196, 194, 192, 190, 188, 187, 186, 185, 183, 182,
          181, 180, 178, 177, 176, 175, 173, 172, 171, 170, 168 >>,
        <<
          0, 0, 0, 0, 0, 0, 0, 0, 0, 0, 0, 0, 0, 0, 0, 3, 6, 9, 12, 15, 18, 21, 24, 27, 30, 33,
          36, 39, 42, 45, 49, 52, 56, 60, 64, 68, 72, 76, 80, 83, 87, 91, 95, 98, 102, 106, 110,
          114, 119, 124, 129, 133, 138, 143, 148, 151, 155, 158, 162, 166, 169, 173, 177, 180,
          183, 186, 190, 193, 196, 199, 203, 204, 205, 207, 208, 209, 211, 212, 214, 213, 212,
          211, 209, 208, 207, 206, 204, 203, 202, 200, 199, 198, 196, 195, 193, 193, 192, 191,
          190, 189, 188, 187, 186, 186, 186, 186, 186, 186, 186, 186, 187, 188, 189, 190, 191,
          192, 193, 194, 196, 198, 200, 202, 204, 206, 208, 210, 213, 214, 216, 218, 220, 221,
          223, 225, 227, 228, 230, 232, 234, 236, 238, 240, 242, 243, 245, 246, 248, 249, 251,
          252, 254, 254, 254, 254, 254, 254, 254, 254, 254, 253, 251, 250, 248, 247, 245, 244,
          242, 240, 238, 236, 233, 231, 229, 227, 224, 222, 220, 218, 216, 214, 212, 210, 208,
          206, 203, 201, 198, 196, 193, 191, 188, 186, 183, 180, 177, 175, 172, 169, 166, 164,
          161, 159, 156, 153, 151, 148, 145, 143, 140, 138, 135, 132, 130, 127, 124, 122, 119,
          117, 114, 111, 109, 106, 103, 101, 98, 95, 92, 89, 86, 83, 80, 77, 74, 71, 67, 64, 61,
          58, 54, 51, 48, 44, 41, 38, 34, 31, 27, 24, 21, 17, 14, 11, 7, 4, 0 >>,
        <<
          123, 124, 125, 126, 128, 129, 131, 132, 134, 135, 137, 139, 140, 142, 144, 146, 148,
          150, 152, 154, 156, 158, 160, 162, 165, 167, 170, 172, 175, 177, 180, 183, 186, 190,
          193, 196, 200, 203, 207, 210, 214, 217, 221, 224, 228, 231, 235, 237, 239, 241, 244,
          246, 248, 250, 253, 253, 253, 253, 254, 254, 254, 254, 255, 254, 252, 251, 249, 247,
          246, 244, 242, 237, 232, 227, 222, 217, 212, 207, 202, 198, 193, 188, 183, 179, 174,
          169, 164, 160, 155, 150, 145, 141, 136, 131, 126, 122, 118, 113, 109, 105, 100, 96,
          91, 88, 85, 81, 78, 75, 71, 68, 64, 61, 58, 55, 52, 49, 46, 43, 40, 38, 35, 32, 29,
          27, 24, 21, 18, 16, 14, 12, 9, 7, 5, 3, 0, 0, 0, 0, 0, 0, 0, 0, 0, 0, 0, 0, 0, 0, 0,
          0, 0, 0, 0, 0, 0, 0, 0, 0, 0, 0, 0, 0, 0, 0, 0, 0, 0, 0, 0, 0, 0, 0, 0, 0, 0, 0, 0, 0,
          0, 0, 0, 0, 0, 0, 0, 0, 0, 0, 0, 0, 0, 0, 0, 0, 0, 0, 0, 0, 0, 0, 0, 0, 0, 0, 0, 0, 0,
          0, 0, 0, 0, 0, 0, 0, 0, 0, 0, 0, 0, 0, 0, 0, 0, 0, 0, 0, 0, 0, 0, 0, 0, 0, 0, 0, 0, 0,
          0, 0, 0, 0, 0, 0, 0, 0, 0, 0, 0, 0, 0, 0, 0, 0, 0, 0, 0 >> >>,
     redgreen |-> <<
        <<
          127, 128, 128, 129, 129, 130, 130, 131, 131, 132, 132, 133, 133, 134, 134, 135, 135,
          136, 136, 137, 137, 138, 138, 139, 139, 140, 140, 141, 141, 142, 142, 143, 143, 144,
          144, 145, 145, 146, 146, 147, 147, 148, 148, 149, 149, 150, 150, 151, 151, 152, 152,
          153, 153, 154, 154, 155, 155, 156, 156, 157, 157, 158, 158, 159, 159, 160, 160, 161,
          161, 162, 162, 163, 163, 164, 164, 165, 165, 166, 166, 167, 167, 168, 168, 169, 169,
          170, 170, 171, 171, 172, 172, 173, 173, 174, 174, 175, 175, 176, 176, 177, 177, 178,
          178, 179, 179, 180, 180, 181, 181, 182, 182, 183, 183, 184, 184, 185, 185, 186, 186,
          187, 187, 188, 188, 189, 189, 190, 190, 191, 191, 192, 192, 193, 193, 194, 194, 195,
          195, 196, 196, 197, 197, 198, 198, 199, 199, 200, 200, 201, 201, 202, 202, 203, 203,
          204, 204, 205, 205, 206, 206, 207, 207, 208, 208, 209, 209, 210, 210, 211, 211, 212,
          212, 213, 213, 214, 214, 215, 215, 216, 216, 217, 217, 218, 218, 219, 219, 220, 220,
          221, 221, 222, 222, 223, 223, 224, 224, 225, 225, 226, 226, 227, 227, 228, 228, 229,
          229, 230, 230, 231, 231, 232, 232, 233, 233, 234, 234, 235, 235, 236, 236, 237, 237,
          238, 238, 239, 239, 240, 240, 241, 241, 242, 242, 243, 243, 244, 244, 245, 245, 246,
          246, 247, 247, 248, 248, 249, 249, 250, 250, 251, 251, 252, 252, 253, 253, 254, 255 >>,
        <<
          255, 253, 252, 251, 250, 249, 248, 247, 246, 245, 244, 243, 242, 241, 240, 239, 238,
          237, 236, 235, 234, 233, 232, 231, 230, 229, 228, 227, 226, 225, 224, 223, 222, 221,
          220, 219, 218, 217, 216, 215, 214, 213, 212, 211, 210, 209, 208, 207, 206, 205, 204,
          203, 202, 201, 200, 199, 198, 197, 196, 195, 194, 193, 192, 191, 190, 189, 188, 187,
          186, 185, 184, 183, 182, 181, 180, 179, 178, 177, 176, 175, 174, 173, 172, 171, 170,
          169, 168, 167, 166, 165, 164, 163, 162, 161, 160, 159, 158, 157, 156, 155, 154, 153,
          152, 151, 150, 149, 148, 147, 146, 145, 144, 143, 142, 141, 140, 139, 138, 137, 136,
          135, 134, 133, 132, 131, 130, 129, 128, 127, 126, 125, 124, 123, 122, 121, 120, 119,
          118, 117, 116, 115, 114, 113, 112, 111, 110, 109, 108, 107, 106, 105, 104, 103, 102,
          101, 100, 99, 98, 97, 96, 95, 94, 93, 92, 91, 90, 89, 88, 87, 86, 85, 84, 83, 82, 81,
          80, 79, 78, 77, 76, 75, 74, 73, 72, 71, 70, 69, 68, 67, 66, 65, 64, 63, 62, 61, 60,
          59, 58, 57, 56, 55, 54, 53, 52, 51, 50, 49, 48, 47, 46, 45, 44, 43, 42, 41, 40, 39,
          38, 37, 36, 35, 34, 33, 32, 31, 30, 29, 28, 27, 26, 25, 24, 23, 22, 21, 20, 19, 18,
          17, 16, 15, 14, 13, 12, 11, 10, 9, 8, 7, 6, 5, 4, 3, 2, 1, 0 >>,
        <<
          127, 126, 126, 125, 125, 124, 124, 123, 123, 122, 122, 121, 121, 120, 120, 119, 119,
          118, 118, 117, 117, 116, 116, 115, 115, 114, 114, 113, 113, 112, 112, 111, 111, 110,
          110, 109, 109, 108, 108, 107, 107, 106, 106, 105, 105, 104, 104, 103, 103, 102, 102,
          101, 101, 100, 100, 99, 99, 98, 98, 97, 97, 96, 96, 95, 95, 94, 94, 93, 93, 92, 92,
          91, 91, 90, 90, 89, 89, 88, 88, 87, 87, 86, 86, 85, 85, 84, 84, 83, 83, 82, 82, 81,
          81, 80, 80, 79, 79, 78, 78, 77, 77, 76, 76, 75, 75, 74, 74, 73, 73, 72, 72, 71, 71,
          70, 70, 69, 69, 68, 68, 67, 67, 66, 66, 65, 65, 64, 64, 63, 63, 62, 62, 61, 61, 60,
          60, 59, 59, 58, 58, 57, 57, 56, 56, 55, 55, 54, 54, 53, 53, 52, 52, 51, 51, 50, 50,
          49, 49, 48, 48, 47, 47, 46, 46, 45, 45, 44, 44, 43, 43, 42, 42, 41, 41, 40, 40, 39,
          39, 38, 38, 37, 37, 36, 36, 35, 35, 34, 34, 33, 33, 32, 32, 31, 31, 30, 30, 29, 29,
          28, 28, 27, 27, 26, 26, 25, 25, 24, 24, 23, 23, 22, 22, 21, 21, 20, 20, 19, 19, 18,
          18, 17, 17, 16, 16, 15, 15, 14, 14, 13, 13, 12, 12, 11, 11, 10, 10, 9, 9, 8, 8, 7, 7,
          6, 6, 5, 5, 4, 4, 3, 3, 2, 2, 1, 1, 0, 0 >> >>,
     redblue_light |-> <<
        <<
          127, 136, 145, 154, 163, 173, 182, 191, 200, 209, 218, 227, 236, 245, 255, 255, 255,
          255, 255, 255, 255, 255, 255, 255, 255, 255, 255, 255, 255, 255, 255, 255, 255, 255,
          255, 255, 255, 255, 255, 255, 255, 255, 255, 255, 255, 255, 255, 255, 246, 238, 230,
          222, 213, 205, 197, 189, 180, 172, 164, 156, 148, 139, 131, 123, 115, 106, 98, 90, 82,
          74, 65, 57, 49, 41, 32, 24, 16, 8, 0, 0, 0, 0, 0, 0, 0, 0, 0, 0, 0, 0, 0, 0, 0, 0 >>,
        <<
          0, 0, 0, 0, 0, 0, 0, 0, 0, 0, 0, 0, 0, 0, 0, 0, 8, 16, 24, 32, 41, 49, 57, 65, 74, 82,
          90, 98, 106, 115, 123, 131, 139, 148, 156, 164, 172, 180, 189, 197, 205, 213, 222,
          230, 238, 246, 255, 255, 246, 238, 230, 222, 213, 205, 197, 189, 180, 172, 164, 156,
          148, 139, 131, 123, 115, 106, 98, 90, 82, 74, 65, 57, 49, 41, 32, 24, 16, 8, 0, 0, 0,
          0, 0, 0, 0, 0, 0, 0, 0, 0, 0, 0, 0, 0 >>,
        <<
          0, 0, 0, 0, 0, 0, 0, 0, 0, 0, 0, 0, 0, 0, 0, 0, 8, 16, 24, 32, 41, 49, 57, 65, 74, 82,
          90, 98, 106, 115, 123, 131, 139, 148, 156, 164, 172, 180, 189, 197, 205, 213, 222,
          230, 238, 246, 255, 255, 255, 255, 255, 255, 255, 255, 255, 255, 255, 255, 255, 255,
          255, 255, 255, 255, 255, 255, 255, 255, 255, 255, 255, 255, 255, 255, 255, 255, 255,
          255, 255, 255, 245, 236, 227, 218, 209, 200, 191, 182, 173, 163, 154, 145, 136, 127 >> >>,
     redblue_dark |-> <<
        <<
          0, 0, 0, 0, 0, 0, 0, 0, 0, 0, 0, 0, 0, 0, 0, 0, 0, 0, 0, 0, 0, 0, 0, 0, 0, 0, 0, 0, 0,
          0, 0, 0, 0, 0, 0, 0, 0, 0, 0, 0, 0, 0, 0, 0, 0, 0, 0, 0, 0, 0, 0, 0, 0, 0, 0, 0, 0, 0,
          0, 0, 0, 0, 0, 0, 0, 0, 0, 0, 0, 0, 0, 0, 0, 0, 0, 0, 0, 0, 0, 0, 0, 0, 0, 0, 0, 0, 0,
          0, 0, 0, 0, 0, 0, 0, 0, 0, 0, 0, 0, 0, 0, 0, 0, 0, 0, 0, 0, 0, 0, 0, 0, 0, 0, 0, 0, 0,
          0, 0, 0, 0, 0, 0, 0, 0, 0, 0, 0, 0, 2, 4, 6, 8, 10, 12, 14, 16, 18, 20, 22, 24, 26,
          28, 30, 32, 34, 36, 38, 40, 42, 44, 46, 48, 50, 52, 54, 56, 58, 60, 62, 64, 66, 68,
          70, 72, 74, 76, 78, 80, 82, 85, 87, 89, 91, 93, 95, 97, 99, 101, 103, 105, 107, 109,
          111, 113, 115, 117, 119, 121, 123, 125, 127, 129, 131, 133, 135, 137, 139, 141, 143,
          145, 147, 149, 151, 153, 155, 157, 159, 161, 163, 165, 167, 170, 172, 174, 176, 178,
          180, 182, 184, 186, 188, 190, 192, 194, 196, 198, 200, 202, 204, 206, 208, 210, 212,
          214, 216, 218, 220, 222, 224, 226, 228, 230, 232, 234, 236, 238, 240, 242, 244, 246,
          248, 250, 252, 255 >>,
        <<
          0, 0, 0, 0, 0, 0, 0, 0, 0, 0, 0, 0, 0, 0, 0, 0, 0, 0, 0, 0, 0, 0, 0, 0, 0, 0, 0, 0, 0,
          0, 0, 0, 0, 0, 0, 0, 0, 0, 0, 0, 0, 0, 0, 0, 0, 0, 0, 0, 0, 0, 0, 0, 0, 0, 0, 0, 0, 0,
          0, 0, 0, 0, 0, 0, 0, 0, 0, 0, 0, 0, 0, 0, 0, 0, 0, 0, 0, 0, 0, 0, 0, 0, 0, 0, 0, 0, 0,
          0, 0, 0, 0, 0, 0, 0, 0, 0, 0, 0, 0, 0, 0, 0, 0, 0, 0, 0, 0, 0, 0, 0, 0, 0, 0, 0, 0, 0,
          0, 0, 0, 0, 0, 0, 0, 0, 0, 0, 0, 0, 0, 0, 0, 0, 0, 0, 0, 0, 0, 0, 0, 0, 0, 0, 0, 0, 0,
          0, 0, 0, 0, 0, 0, 0, 0, 0, 0, 0, 0, 0, 0, 0, 0, 0, 0, 0, 0, 0, 0, 0, 0, 0, 0, 0, 0, 0,
          0, 0, 0, 0, 0, 0, 0, 0, 0, 0, 0, 0, 0, 0, 0, 0, 0, 0, 0, 0, 0, 0, 0, 0, 0, 0, 0, 0, 0,
          0, 0, 0, 0, 0, 0, 0, 0, 0, 0, 0, 0, 0, 0, 0, 0, 0, 0, 0, 0, 0, 0, 0, 0, 0, 0, 0, 0, 0,
          0, 0, 0, 0, 0, 0, 0, 0, 0, 0, 0, 0, 0, 0, 0, 0, 0, 0, 0, 0, 0, 0 >>,
        <<
          255, 252, 250, 248, 246, 244, 242, 240, 238, 236, 234, 232, 230, 228, 226, 224, 222,
          220, 218, 216, 214, 212, 210, 208, 206, 204, 202, 200, 198, 196, 194, 192, 190, 188,
          186, 184, 182, 180, 178, 176, 174, 172, 170, 167, 165, 163, 161, 159, 157, 155, 153,
          151, 149, 147, 145, 143, 141, 139, 137, 135, 133, 131, 129, 127, 125, 123, 121, 119,
          117, 115, 113, 111, 109, 107, 105, 103, 101, 99, 97, 95, 93, 91, 89, 87, 85, 82, 80,
          78, 76, 74, 72, 70, 68, 66, 64, 62, 60, 58, 56, 54, 52, 50, 48, 46, 44, 42, 40, 38,
          36, 34, 32, 30, 28, 26, 24, 22, 20, 18, 16, 14, 12, 10, 8, 6, 4, 2, 0, 0, 0, 0, 0, 0,
          0, 0, 0, 0, 0, 0, 0, 0, 0, 0, 0, 0, 0, 0, 0, 0, 0, 0, 0, 0, 0, 0, 0, 0, 0, 0, 0, 0, 0,
          0, 0, 0, 0, 0, 0, 0, 0, 0, 0, 0, 0, 0, 0, 0, 0, 0, 0, 0, 0, 0, 0, 0, 0, 0, 0, 0, 0, 0,
          0, 0, 0, 0, 0, 0, 0, 0, 0, 0, 0, 0, 0, 0, 0, 0, 0, 0, 0, 0, 0, 0, 0, 0, 0, 0, 0, 0, 0,
          0, 0, 0, 0, 0, 0, 0, 0, 0, 0, 0, 0, 0, 0, 0, 0, 0, 0, 0, 0, 0, 0, 0, 0, 0, 0, 0, 0, 0,
          0, 0, 0, 0, 0, 0 >> >>,
     ctopo |-> <<
        <<
          255, 251, 247, 243, 240, 236, 232, 228, 225, 221, 217, 213, 210, 206, 202, 198, 195,
          191, 187, 183, 180, 176, 172, 168, 165, 161, 157, 153, 150, 146, 142, 138, 135, 131,
          127, 124, 120, 116, 112, 109, 105, 101, 97, 94, 90, 86, 82, 79, 75, 71, 67, 64, 60,
          56, 52, 49, 45, 41, 37, 34, 30, 26, 22, 19, 15, 11 >>,
        <<
          253, 251, 249, 246, 244, 242, 240, 238, 236, 234, 232, 230, 227, 225, 223, 221, 219,
          217, 215, 213, 211, 208, 206, 204, 202, 200, 198, 196, 194, 192, 190, 187, 185, 183,
          181, 179, 177, 175, 173, 171, 168, 166, 164, 162, 160, 158, 156, 154, 152, 149, 147,
          145, 143, 141, 139, 137, 135, 133, 131, 128, 126, 124, 122, 120, 118, 116 >>,
        <<
          145, 143, 140, 138, 136, 134, 131, 129, 127, 125, 122, 120, 118, 116, 114, 111, 109,
          107, 105, 102, 100, 98, 96, 93, 91, 89, 87, 84, 82, 80, 78, 76, 73, 71, 69, 67, 64,
          62, 60, 58, 55, 53, 51, 49, 46, 44, 42, 40, 38, 35, 33, 31, 29, 26, 24, 22, 20, 17,
          15, 13, 11, 8, 6, 4, 2, 0 >> >>
    ]

\* lines 513-625: the values of odv in ten-thousandths, before the reshape
odv_values ==
    <<
      9360, 7790, 9390, 9200, 6910, 9160, 9040, 5740, 8900, 8880, 4750, 8650, 8720, 3960, 8410,
      8580, 3100, 8190, 8450, 2840, 8010, 8300, 3190, 7790, 8140, 4120, 7600, 7930, 4870, 7500,
      7730, 5640, 7510, 7380, 6060, 7630, 6920, 6150, 7910, 6210, 5900, 8310, 5430, 5260, 8780,
      4490, 4420, 9170, 3500, 3400, 9610, 2760, 2630, 9930, 2000, 2370, 10000, 1470, 2450, 9920,
      1070, 2690, 9660, 970, 3160, 9450, 1030, 3790, 9290, 1310, 4490, 9220, 1690, 5360, 9300,
      2170, 6030, 9500, 2710, 6880, 9730, 3260, 7550, 9900, 3760, 8100, 9910, 4180, 8710, 9690,
      4500, 9110, 9390, 4680, 9380, 8960, 4720, 9490, 8580, 4620, 9440, 8150, 4390, 9260, 7640,
      4030, 8940, 7040, 3570, 8560, 6380, 3060, 8170, 5730, 2520, 7830, 5140, 2000, 7580, 4630,
      1510, 7470, 4190, 1080, 7500, 3790, 720, 7700, 3420, 440, 8020, 3060, 230, 8440, 2660,
      150, 8750, 2360, 180, 8960, 2100, 300, 9070, 1890, 530, 9050, 1740, 860, 8900, 1660, 1260,
      8660, 1670, 1710, 8400, 1750, 2180, 8160, 1920, 2650, 7970, 2160, 3110, 7850, 2460, 3550,
      7790, 2790, 3970, 7800, 3130, 4380, 7870, 3450, 4770, 8020, 3720, 5160, 8240, 3940, 5550,
      8510, 4070, 5960, 8810, 4110, 6400, 9100, 4060, 6860, 9330, 3930, 7360, 9470, 3720, 7860,
      9490, 3440, 8350, 9350, 3110, 8900, 9040, 2680, 9300, 8640, 2320, 9600, 8220, 1990, 9790,
      7910, 1700, 9890, 7570, 1460, 9940, 7330, 1250, 9970, 7100, 1070, 9990, 6820, 910, 10000,
      6550, 760, 10000, 6330, 630, 9990, 6040, 510, 9930, 5800, 400, 9830, 5560, 310, 9670,
      5310, 220, 9460, 5080, 160, 9220, 4800, 100, 8980, 4500, 50, 8770, 4180, 20, 8640, 3840,
      0, 8630, 3480, 0, 8790, 3040, 10, 9080, 2680, 30, 9430, 2260, 80, 9730, 1700, 140, 9920,
      1200, 210, 9970, 710, 300, 9880, 310, 400, 9650, 50, 510, 9310, 0, 650, 8940, 0, 810,
      8630, 50, 980, 8440, 160, 1180, 8360, 320, 1400, 8370, 540, 1650, 8430, 840, 1930, 8530,
      1240, 2240, 8670, 1740, 2560, 8840, 2330, 2890, 9050, 3010, 3200, 9290, 3770, 3520, 9530,
      4590, 3870, 9770, 5460, 4280, 9970, 6340, 4730, 10000, 7140, 5190, 10000, 7750, 5610,
      10000, 7840, 5680 >>

\* np.array([[reds], [greens], [blues]]).T / 255.
Literal(name) ==
    LET rows == LiteralBytes[name]
    IN  Over255(Transpose(A2([r \in 0..2 |->
            [c \in 0..(Len(rows[r + 1]) - 1) |-> Num(rows[r + 1][c + 1])]])))

\* np.array([...]).reshape((-1, 3))
odv ==
    A2([r \in 0..((Len(odv_values) \div 3) - 1) |->
           [c \in 0..2 |-> Rat(odv_values[3 * r + c + 1], 10000)]])

\* lines 87-90: mpl.colors.ListedColormap(np.asarray(rgb)) keeps the table and
\* takes its length as the number of colours
cmat2cmpl(rgb) == [colors |-> rgb, N |-> ArrLen(rgb.v)]

\* lines 93-94
_reverse_cm(table) == flipud(table)

AvhrrSize == 256     \* default of avhrr_cm's parameter m

CatalogNames == <<"phasemap", "zebra", "avhrr", "cbathy", "coolavhrrmap", "rscolmap",
                  "redgreen", "redblue_light", "redblue_dark", "ctopo", "odv">>

\* lines 629-650: statement k (1..22) of the catalog stores the table of line
\* 629 + k - 1, the even ones reversed and under the name with _r
CatalogKey(k) ==
    IF k % 2 = 1 THEN CatalogNames[(k + 1) \div 2]
    ELSE CatalogNames[(k + 1) \div 2] \o "_r"

CatalogTable(ns, k) ==
    IF k % 2 = 1 THEN ns[CatalogNames[(k + 1) \div 2]]
    ELSE _reverse_cm(ns[CatalogNames[(k + 1) \div 2]])

\* the import of colormaps.py begins: the functions are defined, phasemap_cm
\* with a default table length of the model
InitCm ==
    \E m \in PhaseSizes :
        /\ colormaps = ("phasemap_cm.m" :> m)
        /\ pc = "cm_180"
        /\ err = "none"
        /\ lon = << >> /\ lat = << >>
        /\ IdleES /\ IdleGT /\ IdlePar
        /\ self = NoNames /\ locals = NoNames

cmFrame == <<lon, lat, err, esVars, gtVars, parVars, self, locals>>

\* lines 180-182: zebra_cm with its defaults a = 4, n = 1, m = 0.5
CM_Generate ==
    /\ pc = "cm_180"
    /\ colormaps' = colormaps
                      @@ ("phasemap" :> phasemap_cm(colormaps["phasemap_cm.m"]))
                      @@ ("zebra" :> zebra_cm(4, 1, Rat(1, 2)))
                      @@ ("avhrr" :> avhrr_cm(AvhrrSize))
    /\ pc' = "cm_184"
    /\ UNCHANGED cmFrame

\* lines 184-626: the tables written out in the source
CM_Literals ==
    /\ pc = "cm_184"
    /\ colormaps' = colormaps @@ [n \in DOMAIN LiteralBytes |-> Literal(n)] @@ ("odv" :> odv)
    /\ pc' = "cm_628"
    /\ UNCHANGED cmFrame

\* line 628
CM_Bunch ==
    /\ pc = "cm_628"
    /\ colormaps' = colormaps @@ ("cm" :> << >>)
    /\ pc' = "cm_629"
    /\ UNCHANGED cmFrame

\* lines 629-650, one statement a step
CM_Put ==
    /\ pc = "cm_629"
    /\ LET k == Cardinality(DOMAIN colormaps["cm"]) + 1
       IN  /\ colormaps' = [colormaps EXCEPT !["cm"] =
                               @ @@ (CatalogKey(k) :> cmat2cmpl(CatalogTable(colormaps, k)))]
           /\ pc' = IF k = 2 * Len(CatalogNames) THEN "cm_imported" ELSE "cm_629"
    /\ UNCHANGED cmFrame

NextCm ==
    \/ CM_Generate
    \/ CM_Literals
    \/ CM_Bunch
    \/ CM_Put

SpecCm == InitCm /\ [][NextCm]_vars

\* ------------------------------------------------------ claims on colormaps.py
\* K rows of exactly 3 components, each a number in [0, 1]
IsRGBTable(t) ==
    /\ t.nd = 2
    /\ Shape(t)[2] = 3
    /\ \A r \in DOMAIN t.v : \A c \in DOMAIN t.v[r] :
          IsNum(t.v[r][c]) /\ FLeq(Num(0), t.v[r][c]) /\ FLeq(t.v[r][c], Num(1))

\* C18: every table stored in the catalog cm is a table of K rows by exactly 3
\* columns with every component in [0, 1].
C18_CatalogTables ==
    "cm" \in DOMAIN colormaps =>
        \A name \in DOMAIN colormaps["cm"] : IsRGBTable(colormaps["cm"][name].colors)

\* ------------------------------------------------------------- Series.despike
MaxSeriesLen == 5     \* series of 1..MaxSeriesLen samples

\* scipy.stats.nanmean of a sequence: the mean of the entries that are numbers
nanmean(w) ==
    LET RECURSIVE Sum(_)
        Sum(i) == IF i = 0 THEN Num(0)
                  ELSE IF IsNaN(w[i]) THEN Sum(i - 1) ELSE FAdd(Sum(i - 1), w[i])
    IN  FDiv(Sum(Len(w)), Num(Cardinality({i \in 1..Len(w) : ~IsNaN(w[i])})))

\* the square of scipy.stats.nanstd (bias=False): the squared deviations of the
\* entries that are numbers, summed and divided by their count less one
nanvar(w) ==
    LET m1 == nanmean(w)
        RECURSIVE Sum(_)
        Sum(i) == IF i = 0 THEN Num(0)
                  ELSE IF IsNaN(w[i]) THEN Sum(i - 1)
                  ELSE FAdd(Sum(i - 1), FMul(FSub(w[i], m1), FSub(w[i], m1)))
    IN  FDiv(Sum(Len(w)), Num(Cardinality({i \in 1..Len(w) : ~IsNaN(w[i])}) - 1))

\* lines 64-65, for n >= 0: |point - mean| >= n * std decided on the squares;
\* a comparison with NaN is false
find_outlier(point, window, n) ==
    LET dev == FSub(point, nanmean(window))
        lhs == FMul(dev, dev)
        rhs == FMul(FMul(n, n), nanvar(window))
    IN  IsNum(lhs) /\ IsNum(rhs) /\ FLeq(rhs, lhs)

\* lines 339-350: the window of sample k; Slice(a, b) is d[a:b] for 0 <= a
Window(d, k, windowsize) ==
    LET Slice(a, b) ==
            LET hi == IF b > ArrLen(d) THEN ArrLen(d) ELSE b
            IN  [i \in 1..(IF hi > a THEN hi - a ELSE 0) |-> d[a + i - 1]]
    IN  IF k <= windowsize THEN Slice(k, k + windowsize)
        ELSE IF k >= ArrLen(d) - windowsize THEN Slice(k - windowsize, k)
        ELSE Slice(k - windowsize, k + windowsize)

seriesFrame == <<lon, lat, err, esVars, gtVars, parVars, colormaps>>

StartSeries(sv, lc, at) ==
    /\ self = sv
    /\ locals = lc
    /\ pc = at
    /\ err = "none"
    /\ lon = << >> /\ lat = << >>
    /\ IdleES /\ IdleGT /\ IdlePar
    /\ colormaps = NoNames

\* series of the values 0, 1 and 9 sampled every decibar
InitDespike ==
    \E len \in 1..MaxSeriesLen, ws \in {2, 3}, n \in {Num(1), Num(3)} :
        \E vs \in [0..(len - 1) -> {0, 1, 9}] :
            StartSeries([index |-> [i \in 0..(len - 1) |-> Num(i)],
                         values |-> [i \in 0..(len - 1) |-> Num(vs[i])]],
                        [n |-> n, windowsize |-> ws], "ds_call")

\* line 337
DS_Copy ==
    /\ pc = "ds_call"
    /\ locals' = locals @@ [data |-> self.values, k |-> 0]
    /\ pc' = "ds_loop"
    /\ UNCHANGED <<self, seriesFrame>>

\* lines 338-353: one iteration of the loop
DS_Point ==
    /\ pc = "ds_loop"
    /\ locals.k < ArrLen(locals.data)
    /\ LET k == locals.k
           point == locals.data[k]
           window == Window(locals.data, k, locals.windowsize)
       IN  locals' = [locals EXCEPT
                         !.data = IF find_outlier(point, window, locals.n)
                                  THEN [@ EXCEPT ![k] = NaN] ELSE @,
                         !.k = k + 1]
    /\ UNCHANGED <<pc, self, seriesFrame>>

\* line 354
DS_Return ==
    /\ pc = "ds_loop"
    /\ locals.k = ArrLen(locals.data)
    /\ locals' = locals @@ [ret |-> [index |-> self.index, values |-> locals.data]]
    /\ pc' = "ds_done"
    /\ UNCHANGED <<self, seriesFrame>>

NextDespike ==
    \/ DS_Copy
    \/ DS_Point
    \/ DS_Return

SpecDespike == InitDespike /\ [][NextDespike]_vars

\* ------------------------------------------------------------ claims on despike
\* C19: the returned series has the index of the input, and sample k is NaN in
\* it exactly when, in the input series, it deviates from the mean of its
\* window by at least n standard deviations of that window; every other sample
\* has its input value.
C19_DespikeByInputWindow ==
    pc = "ds_done" =>
        /\ locals.ret.index = self.index
        /\ \A k \in DOMAIN self.values :
              IF find_outlier(self.values[k],
                              Window(self.values, k, locals.windowsize), locals.n)
              THEN IsNaN(locals.ret.values[k])
              ELSE locals.ret.values[k] = self.values[k]

\* ------------------------------------------------------------- Series.bindata
\* lines 68-76, Index.asof: the label itself, or the greatest label below it
asof(ix, label) ==
    IF \E i \in DOMAIN ix : Sgn(FSub(ix[i], label)) = 0 THEN label
    ELSE LET loc == searchsorted(ix, label)
         IN  IF loc > 0 THEN ix[loc - 1] ELSE NaN

\* groupby(by).mean() of a series for increasing labels: one row per label that
\* is the key of some sample, holding the mean of those samples; NaN keys drop out
groupby_mean(s, keys, labels) ==
    LET used == {j \in DOMAIN labels : \E i \in DOMAIN keys : keys[i] = labels[j]}
        rank(j) == Cardinality({u \in used : u < j})
        at(r) == CHOOSE j \in used : rank(j) = r
        group(j) == {i \in DOMAIN keys : keys[i] = labels[j]}
        sorted(j) == [q \in 1..Cardinality(group(j)) |->
                        s.values[CHOOSE i \in group(j) :
                                    Cardinality({o \in group(j) : o < i}) = q - 1]]
    IN  [index  |-> [r \in 0..(Cardinality(used) - 1) |-> labels[at(r)]],
         values |-> [r \in 0..(Cardinality(used) - 1) |-> nanmean(sorted(at(r)))]]

\* profiles of increasing pressure: the first sample at 0 or 0.5 dbar, the next
\* ones 0.5 or 1 dbar further down, binned every 0.5, 1 or 2 dbar
InitBindata ==
    \E len \in 1..MaxSeriesLen, p0 \in {Num(0), Rat(1, 2)},
       db \in {Rat(1, 2), Num(1), Num(2)} :
        \E steps \in [1..(len - 1) -> {Rat(1, 2), Num(1)}],
           vs \in [0..(len - 1) -> {0, 9}] :
            LET RECURSIVE Pressures(_)
                Pressures(i) == IF i = 0 THEN p0
                                ELSE FAdd(Pressures(i - 1), steps[i])
            IN  StartSeries([index |-> [i \in 0..(len - 1) |-> Pressures(i)],
                             values |-> [i \in 0..(len - 1) |-> Num(vs[i])]],
                            [db |-> db], "bd_call")

\* lines 523-527
BD_Bins ==
    /\ pc = "bd_call"
    /\ LET Floor(v) == v.n \div v.d
           start == Num(Floor(self.index[0]))
           end == Num(Ceil(Last(self.index)))
           shift == FDiv(locals.db, Num(2))
           steps == arange(FSub(end, start), locals.db)
       IN  locals' = locals @@
               [start |-> start, end |-> end, shift |-> shift,
                new_index |-> [i \in DOMAIN steps |->
                                  FSub(FAdd(start, steps[i]), shift)]]
    /\ pc' = "bd_group"
    /\ UNCHANGED <<self, seriesFrame>>

\* line 528; `keys` is what new_index.asof answered for each sample
BD_Group ==
    /\ pc = "bd_group"
    /\ LET keys == [i \in DOMAIN self.index |-> asof(locals.new_index, self.index[i])]
       IN  locals' = locals @@
               [keys |-> keys,
                newdf |-> groupby_mean(self, keys, locals.new_index)]
    /\ pc' = "bd_shift"
    /\ UNCHANGED <<self, seriesFrame>>

\* lines 529-531
BD_Shift ==
    /\ pc = "bd_shift"
    /\ locals' = [locals EXCEPT
                     !.newdf.index = [r \in DOMAIN @ |-> FAdd(@[r], locals.shift)]]
    /\ pc' = "bd_done"
    /\ UNCHANGED <<self, seriesFrame>>

NextBindata ==
    \/ BD_Bins
    \/ BD_Group
    \/ BD_Shift

SpecBindata == InitBindata /\ [][NextBindata]_vars

\* ------------------------------------------------------------ claims on bindata
\* C20: every sample, at pressure p, is averaged into a bin of the result whose
\* reported centre c satisfies c - db/2 <= p < c + db/2.
C20_CentredBins ==
    pc = "bd_done" =>
        \A i \in DOMAIN self.index :
            \E r \in DOMAIN locals.newdf.index :
                LET c == locals.newdf.index[r]
                    p == self.index[i]
                IN  /\ c = FAdd(locals.keys[i], locals.shift)
                    /\ FLeq(FSub(c, locals.shift), p)
                    /\ FLt(p, FAdd(c, locals.shift))

\* -------------------------------------------------------------- Series.smooth
\* line 314 and np.ones / np.hanning for window_len in 3..5
windows ==
    [flat    |-> [n \in 3..5 |-> [i \in 0..(n - 1) |-> Num(1)]],
     hanning |-> (3 :> (0 :> Num(0) @@ 1 :> Num(1) @@ 2 :> Num(0)) @@
                  4 :> (0 :> Num(0) @@ 1 :> Rat(3, 4) @@ 2 :> Rat(3, 4) @@ 3 :> Num(0)) @@
                  5 :> (0 :> Num(0) @@ 1 :> Rat(1, 2) @@ 2 :> Num(1) @@
                        3 :> Rat(1, 2) @@ 4 :> Num(0)))]

\* np.convolve(a, v, mode='same'): max(len) samples from the middle of the
\* full convolution, which starts (min(len) - 1) // 2 samples into it
convolve_same(a, v) ==
    LET na == ArrLen(a)
        nv == ArrLen(v)
        n1 == IF na >= nv THEN na ELSE nv
        n2 == IF na >= nv THEN nv ELSE na
        RECURSIVE Sum(_, _)
        Sum(t, j) == IF j < 0 THEN Num(0)
                     ELSE IF t - j \in DOMAIN v
                          THEN FAdd(Sum(t, j - 1), FMul(a[j], v[t - j]))
                          ELSE Sum(t, j - 1)
        full(t) == Sum(t, na - 1)
    IN  [i \in 0..(n1 - 1) |-> full(i + (n2 - 1) \div 2)]

\* series of the values 0 and 9, smoothed over 2..5 samples
InitSmooth ==
    \E len \in 1..MaxSeriesLen, wl \in 2..5, wn \in {"flat", "hanning", "boxcar"} :
        \E vs \in [0..(len - 1) -> {0, 9}] :
            StartSeries([index |-> [i \in 0..(len - 1) |-> Num(i)],
                         values |-> [i \in 0..(len - 1) |-> Num(vs[i])]],
                        [window_len |-> wl, window |-> wn], "sm_call")

\* lines 316-323
SM_Copy ==
    /\ pc = "sm_call"
    /\ IF locals.window_len < 3
       THEN /\ locals' = locals @@ [ret |-> [index |-> self.index,
                                             values |-> self.values]]
            /\ pc' = "sm_done"
            /\ err' = err
       ELSE IF locals.window \notin DOMAIN windows
       THEN /\ pc' = "error"
            /\ err' = "ValueError"
            /\ locals' = locals
       ELSE /\ locals' = locals @@ [data |-> self.values]
            /\ pc' = "sm_pad"
            /\ err' = err
    /\ UNCHANGED <<self, lon, lat, esVars, gtVars, parVars, colormaps>>

\* lines 325-326: data[window_len:1:-1] runs from index min(window_len, len - 1)
\* down to 2, data[-1:-window_len:-1] from the last index down to
\* len - window_len + 1, or down to 0 when window_len > len
SM_Pad ==
    /\ pc = "sm_pad"
    /\ LET d == locals.data
           n == ArrLen(d)
           wl == locals.window_len
           from == IF wl > n - 1 THEN n - 1 ELSE wl
           na == IF from >= 2 THEN from - 1 ELSE 0
           nb == IF wl > n THEN n ELSE wl - 1
       IN  locals' = locals @@
               [s |-> [i \in 0..(na + n + nb - 1) |->
                          IF i < na
                          THEN FSub(FMul(Num(2), d[0]), d[from - i])
                          ELSE IF i < na + n THEN d[i - na]
                          ELSE FSub(FMul(Num(2), Last(d)), d[n - 1 - (i - na - n)])]]
    /\ pc' = "sm_convolve"
    /\ UNCHANGED <<self, seriesFrame>>

\* lines 328-331
SM_Convolve ==
    /\ pc = "sm_convolve"
    /\ LET w == windows[locals.window][locals.window_len]
           RECURSIVE Sum(_)
           Sum(i) == IF i < 0 THEN Num(0) ELSE FAdd(Sum(i - 1), w[i])
           c == convolve_same([i \in DOMAIN w |-> FDiv(w[i], Sum(ArrLen(w) - 1))],
                              locals.s)
           n == ArrLen(c)
           lo == IF locals.window_len - 1 > n THEN n ELSE locals.window_len - 1
           hi == IF n - locals.window_len + 1 < 0 THEN 0 ELSE n - locals.window_len + 1
       IN  locals' = [locals EXCEPT
                         !.data = [i \in 0..(hi - lo - 1) |-> c[lo + i]]]
    /\ pc' = "sm_return"
    /\ UNCHANGED <<self, seriesFrame>>

\* line 332: a Series needs as many values as index labels; what is raised
\* otherwise depends on the version of pandas
SM_Return ==
    /\ pc = "sm_return"
    /\ IF ArrLen(locals.data) = ArrLen(self.index)
       THEN /\ locals' = locals @@ [ret |-> [index |-> self.index,
                                             values |-> locals.data]]
            /\ pc' = "sm_done"
            /\ err' = err
       ELSE /\ pc' = "error"
            /\ err' \in {"ValueError", "AssertionError"}
            /\ locals' = locals
    /\ UNCHANGED <<self, lon, lat, esVars, gtVars, parVars, colormaps>>

NextSmooth ==
    \/ SM_Copy
    \/ SM_Pad
    \/ SM_Convolve
    \/ SM_Return

SpecSmooth == InitSmooth /\ [][NextSmooth]_vars

\* ------------------------------------------------------------- claims on smooth
\* C21: smooth returns a series with the index and the number of samples of its
\* input: the input values when window_len < 3, and for window_len >= 3 the
\* trimmed convolution has exactly len(input) samples.
C21_SmoothKeepsLength ==
    /\ (pc = "sm_done" /\ locals.window_len < 3) => locals.ret = self
    /\ pc = "sm_return" => ArrLen(locals.data) = ArrLen(self.index)
    /\ pc = "sm_done" => /\ locals.ret.index = self.index
                         /\ ArrLen(locals.ret.values) = ArrLen(self.values)

\* --------------------------------------------------- further claims on extrap_sec
\* C22: an iteration of the scan that fills column c sets each missing cell
\* (r, c) to data[r][c+1] - fd * ((data[r][c+2] - data[r][c+1]) /
\* (dist[c+2] - dist[c+1])) * (dist[c+1] - dist[c]), read from columns c+1 and
\* c+2 as the scan left them; with fd = 1 and stations evenly spaced (a positive
\* distance apart) this is 2 * data[r][c+1] - data[r][c+2].
C22_FillFormula ==
    [][(/\ pc = "scan" /\ pc' = "scan"
        /\ todo /= << >>
        /\ IsNaN(heap[data][NRows(heap[data]) - 1][Head(todo)]))
       => LET g == heap[data]
              c == Head(todo)
              d01 == FSub(dist[c + 1], dist[c])
              d12 == FSub(dist[c + 2], dist[c + 1])
          IN  \A r \in DOMAIN g :
                IsNaN(g[r][c]) =>
                  /\ heap'[data][r][c] =
                        FSub(g[r][c + 1],
                             FMul(FMul(fd, FDiv(FSub(g[r][c + 2], g[r][c + 1]), d12)),
                                  d01))
                  /\ (fd = Num(1) /\ d01 = d12 /\ Sgn(d01) > 0) =>
                        heap'[data][r][c] =
                            FSub(FMul(Num(2), g[r][c + 1]), g[r][c + 2])]_vars

\* a call returned in which the scan filled a cell from a cell it had filled
\* itself one iteration earlier, at unevenly spaced stations
C22_Witness ==
    /\ pc = "done"
    /\ calls = 1
    /\ fd = Rat(1, 2)
    /\ \E rc \in Cells(input) :
          LET r == rc[1]
              c == rc[2]
              g == heap[ret]
          IN  /\ c >= 1
              /\ c + 1 < NCols(input) - 2
              /\ IsNaN(input[r][c])
              /\ IsNaN(input[r][c + 1])
              /\ IsNum(g[r][c])
              /\ FSub(dist[c + 1], dist[c]) /= FSub(dist[c + 2], dist[c + 1])
              /\ g[r][c] /= g[r][c + 1]

\* the seed has run and the scan has not started
Seeded == pc = "scan" /\ todo = ScanCols(Len(lon))

\* C23: before the scan, every missing cell of the second-to-last column holds
\* the value of its row in the last column, whatever fd is and whether or not
\* the column's bottom-most cell is missing; a cell missing in both columns is
\* still missing, and no other cell has changed.
C23_BoundarySeed ==
    Seeded =>
        LET n == NCols(input)
        IN  \A rc \in Cells(input) :
                heap[data][rc[1]][rc[2]] =
                    IF rc[2] = n - 2 /\ IsNaN(input[rc[1]][n - 2])
                    THEN input[rc[1]][n - 1]
                    ELSE input[rc[1]][rc[2]]

\* seeded with fd = 0: the second-to-last column, measured at the bottom, got
\* its surface cell from the last column
C23_Witness ==
    /\ Seeded
    /\ fd = Num(0)
    /\ NRows(input) = 2
    /\ NCols(input) >= 3
    /\ LET n == NCols(input)
       IN  /\ IsNaN(input[0][n - 2])
           /\ IsNum(input[1][n - 2])
           /\ IsNum(input[0][n - 1])
           /\ heap[data][0][n - 2] = input[0][n - 1]

\* C24: for a grid of N >= 3 columns, column 0, the last column and every column
\* of 1..N-3 whose bottom-most cell is present hold their input values at every
\* step and in the returned grid, missing cells included.
C24_UntouchedColumns ==
    (WellFormed /\ NCols(input) >= 3) =>
        LET n == NCols(input)
            bottom == NRows(input) - 1
        IN  \A c \in {0, n - 1} \cup {i \in 1..(n - 3) : ~IsNaN(input[bottom][i])} :
                \A r \in DOMAIN input : heap[data][r][c] = input[r][c]

\* a grid was returned with a cell written by the seed, column 0 still missing
\* at the bottom and an inner column still with the gap above its bottom cell
C24_Witness ==
    /\ pc = "done"
    /\ calls = 1
    /\ NRows(input) = 2
    /\ IsNaN(heap[ret][1][0])
    /\ \E c \in 1..(NCols(input) - 3) :
          /\ IsNaN(input[0][c]) /\ IsNum(input[1][c])
          /\ IsNaN(heap[ret][0][c])
    /\ IsNaN(input[0][NCols(input) - 2])
    /\ IsNum(heap[ret][0][NCols(input) - 2])

\* C25: for a grid of N >= 3 columns at N stations, whatever cells are missing,
\* the call never ends in an index error.
C25_NoIndexError ==
    (WellFormed /\ NCols(input) >= 3 /\ NCols(input) = Len(lon)) => err /= "IndexError"

\* a transect ordered shallow to deep: stations at strictly increasing
\* distances, the last column complete, each column missing below some level
ShallowToDeep ==
    /\ WellFormed
    /\ NCols(input) >= 3
    /\ NCols(input) = Len(lon)
    /\ dist /= NoDist
    /\ \A r \in DOMAIN input : ~IsNaN(input[r][NCols(input) - 1])
    /\ \A c \in DOMAIN input[0] : \A r \in 1..(NRows(input) - 1) :
          IsNaN(input[r - 1][c]) => IsNaN(input[r][c])
    /\ \A i \in 1..(DistLen(dist) - 1) : FLt(dist[i - 1], dist[i])

\* C26: on a transect ordered shallow to deep the call returns, and the grid it
\* returns holds a finite value in every cell of the columns 1..N-1.
C26_ShadowFilled ==
    ShallowToDeep =>
        /\ pc /= "error"
        /\ pc = "done" =>
              \A rc \in Cells(input) : rc[2] >= 1 => IsNum(heap[ret][rc[1]][rc[2]])

\* a shallow-to-deep grid was returned in which the scan filled two levels of
\* one column and the column to its right out of the seeded column
C26_Witness ==
    /\ ShallowToDeep
    /\ pc = "done"
    /\ calls = 1
    /\ NRows(input) = 2
    /\ NCols(input) = 4
    /\ IsNaN(input[0][1]) /\ IsNaN(input[1][1])
    /\ IsNaN(input[1][2]) /\ IsNum(input[0][2])
    /\ IsNum(heap[ret][0][1]) /\ IsNum(heap[ret][1][1])

\* ------------------------------------------------------- DataFrame.plot_section
\* an array made by np.array(a, copy=True) or ndarray.copy: the same array object
ArrCopy_view(hp, o) == [heap |-> hp, id |-> o]

\* lines 123-125, ma.masked_invalid(a) and MaskedArray.filled(): a new array
\* object holding the values of object o
ArrCopy(hp, o) ==
    LET new == Cardinality(DOMAIN hp) + 1
    IN  [heap |-> hp @@ (new :> hp[o]), id |-> new]

\* lines 91-93: the deepest level of each station that holds a value
get_maxdepth(g, index) ==
    [c \in DOMAIN g[0] |->
        LET valid == {r \in DOMAIN g : ~IsNaN(g[r][c])}
        IN  IF valid = {} THEN Num(0)
            ELSE index[CHOOSE r \in valid : \A q \in valid : q <= r]]

\* sections of 2 or more stations along a meridian, levels 10 dbar apart,
\* drawn with a topography step of 50 km
InitPlot ==
    \E n \in 2..MaxStations, R \in 1..MaxRows, sp \in {<<1, 1>>, <<1, 2>>},
       filled \in BOOLEAN :
        \E pat \in [0..(n - 1) -> ColPatterns(R)] :
            /\ heap = [o \in {CallerObj} |-> MkGrid(R, n, pat)]
            /\ input = MkGrid(R, n, pat)
            /\ self = [values |-> CallerObj,
                       index |-> [r \in 0..(R - 1) |-> Num(10 * (r + 1))],
                       lon |-> [i \in 1..n |-> 0],
                       lat |-> LatAlt(n, sp[1], sp[2])]
            /\ locals = [filled |-> filled, dx |-> Num(50), kind |-> "linear"]
            /\ pc = "ps_call"
            /\ err = "none"
            /\ lon = << >> /\ lat = << >>
            /\ data = 0 /\ fd = Num(1) /\ dist = NoDist /\ todo = << >>
            /\ ret = 0 /\ prevOut = NoGrid /\ calls = 1
            /\ IdleGT /\ IdlePar
            /\ colormaps = NoNames

\* lines 121-123
PS_Mask ==
    /\ pc = "ps_call"
    /\ LET m == ArrCopy(heap, self.values)
       IN  /\ heap' = m.heap
           /\ locals' = locals @@
                 [z |-> self.index,
                  h |-> get_maxdepth(heap[self.values], self.index),
                  data |-> m.id]
    /\ pc' = "ps_if"
    /\ UNCHANGED <<lon, lat, err, data, fd, dist, todo, ret, input, prevOut, calls,
                   gtVars, parVars, colormaps, self>>

\* lines 124-125: extrap_sec is called on data.filled(fill_value=np.nan), a
\* copy; where nothing is masked, filled() of some numpy versions hands out the
\* masked array's own data
PS_Extrap ==
    /\ pc = "ps_if"
    /\ locals.filled
    /\ \E f \in {ArrCopy(heap, locals.data)} \cup
                 (IF \A rc \in Cells(input) : ~IsNaN(input[rc[1]][rc[2]])
                  THEN {[heap |-> heap, id |-> locals.data]} ELSE {}) :
           /\ heap' = f.heap
           /\ data' = f.id
    /\ lon' = self.lon
    /\ lat' = self.lat
    /\ pc' = "call"
    /\ UNCHANGED <<err, fd, dist, todo, ret, input, prevOut, calls,
                   gtVars, parVars, restVars>>

\* lines 125-128: `data` is bound to what extrap_sec returned, if it was
\* called, and gen_topomask is called
PS_Topo ==
    /\ \/ pc = "ps_if" /\ ~locals.filled /\ locals' = locals
       \/ pc = "done" /\ locals' = [locals EXCEPT !.data = ret]
    /\ lon' = self.lon
    /\ lat' = self.lat
    /\ h' = locals.h
    /\ dx' = locals.dx
    /\ kind' = locals.kind
    /\ pc' = "gt_call"
    /\ UNCHANGED <<err, esVars, x, Ih, xm, hm, parVars, colormaps, self>>

\* lines 130-162: the figure is drawn from x, z, data, xm and hm
PS_Figure ==
    /\ pc = "gt_done"
    /\ locals' = locals @@ [xm |-> xm, hm |-> hm]
    /\ pc' = "ps_done"
    /\ UNCHANGED <<lon, lat, err, esVars, gtVars, parVars, colormaps, self>>

NextPlot ==
    \/ PS_Mask
    \/ PS_Extrap
    \/ ES_Distance
    \/ ES_Seed
    \/ ES_ScanCol
    \/ ES_Return
    \/ PS_Topo
    \/ GT_Distance
    \/ GT_Depth
    \/ GT_Interp
    \/ GT_Grid
    \/ GT_Eval
    \/ PS_Figure

SpecPlot == InitPlot /\ [][NextPlot]_vars

\* ------------------------------------------------------- claims on plot_section
\* C27: with filled=True the values of the DataFrame are, at every step of
\* plot_section and after it, the values they were when it was called: the
\* grid extrap_sec works on is another array object.
C27_SectionUnchanged ==
    locals.filled =>
        /\ heap[self.values] = input
        /\ pc \in {"call", "seed", "scan", "done"} => data /= self.values

\* the figure was drawn from a grid in which extrap_sec filled a cell that is
\* still missing in the DataFrame
C27_Witness ==
    /\ pc = "ps_done"
    /\ locals.filled
    /\ \E rc \in Cells(input) :
          /\ IsNaN(heap[self.values][rc[1]][rc[2]])
          /\ IsNum(heap[locals.data][rc[1]][rc[2]])

\* ------------------------------------------------------ further claims on despike
\* C28: a series whose samples are all equal, none of which deviates from the
\* mean of its window, is returned by despike with every sample kept.
C28_ConstantSeriesKept ==
    (pc = "ds_done" /\ \A i \in DOMAIN self.values : self.values[i] = self.values[0])
        => locals.ret.values = self.values

\* ------------------------------------------------- check_index and its callers
MaxIndexLen == 3      \* indexes of 1..MaxIndexLen labels

\* what check_index returns when it reaches the end of its body
None == [type |-> "NoneType"]

\* pairs of arguments: Series with an index of the labels 0 and 1, floats, an int
InitIndex ==
    LET Args == {[type |-> "Series", index |-> [i \in 0..(n - 1) |-> Num(ix[i])]] :
                    n \in 1..MaxIndexLen, ix \in [0..(MaxIndexLen - 1) -> {0, 1}]}
                \cup {[type |-> "float", value |-> v] : v \in {Num(0), Num(1), NaN}}
                \cup {[type |-> "int", value |-> Num(0)]}
    IN  \E a0 \in Args, a1 \in Args, f \in {"SP_from_C", "CT_from_t"} :
            StartSeries(NoNames, [ix0 |-> a0, ix1 |-> a1, caller |-> f], "ci_call")

\* lines 80-88; for float indexes of different lengths, neither of length one,
\* `ix0 == ix1` is a plain False (no .all()) or a broadcasting error, by numpy version
CI_Check ==
    /\ pc = "ci_call"
    /\ LET a0 == locals.ix0
           a1 == locals.ix1
           n0 == ArrLen(a0.index)
           n1 == ArrLen(a1.index)
           eq(i) == LET u == a0.index[IF n0 = 1 THEN 0 ELSE i]
                        v == a1.index[IF n1 = 1 THEN 0 ELSE i]
                    IN  IsNum(u) /\ IsNum(v) /\ u = v
           Return(v) == /\ locals' = locals @@ [ret |-> v]
                        /\ pc' = "ci_ret"
                        /\ err' = err
       IN  IF a0.type = "Series" /\ a1.type = "Series"
           THEN IF n0 /= n1 /\ n0 /= 1 /\ n1 /= 1
                THEN /\ pc' = "error"
                     /\ err' \in {"AttributeError", "ValueError"}
                     /\ locals' = locals
                ELSE IF \A i \in 0..((IF n0 > n1 THEN n0 ELSE n1) - 1) : eq(i)
                THEN Return(<<a0.index, a1.index>>)
                ELSE Return(None)
           ELSE IF a0.type = "float" /\ a1.type = "float"
           THEN IF IsNum(a0.value) /\ IsNum(a1.value) /\ a0.value = a1.value
                THEN Return(<<a0.value, a1.value>>)
                ELSE Return(None)
           ELSE /\ pc' = "error"
                /\ err' = "ValueError"
                /\ locals' = locals
    /\ UNCHANGED <<self, lon, lat, esVars, gtVars, parVars, colormaps>>

\* lines 263 and 268: p = check_index(...)[0]
CI_Subscript ==
    /\ pc = "ci_ret"
    /\ IF locals.ret = None
       THEN /\ pc' = "error"
            /\ err' = "TypeError"
            /\ locals' = locals
       ELSE /\ locals' = locals @@ [p |-> locals.ret[1]]
            /\ pc' = "ci_done"
            /\ err' = err
    /\ UNCHANGED <<self, lon, lat, esVars, gtVars, parVars, colormaps>>

NextIndex ==
    \/ CI_Check
    \/ CI_Subscript

SpecIndex == InitIndex /\ [][NextIndex]_vars

\* ------------------------------------------------------- claims on check_index
\* two Series with equal indexes, or two equal floats
SameIndex(a0, a1) ==
    \/ a0.type = "Series" /\ a1.type = "Series" /\ a0.index = a1.index
    \/ a0.type = "float" /\ a1.type = "float" /\ IsNum(a0.value) /\ a0.value = a1.value

\* C29: once check_index has run, it has raised ValueError if its arguments do
\* not share the same index, and returned the pair of indexes otherwise; it
\* has never returned None, and its caller has not failed on the result.
C29_IndexChecked ==
    pc /= "ci_call" =>
        /\ ~SameIndex(locals.ix0, locals.ix1) => (pc = "error" /\ err = "ValueError")
        /\ SameIndex(locals.ix0, locals.ix1) => pc \in {"ci_ret", "ci_done"}
        /\ pc = "ci_ret" => locals.ret /= None
        /\ err /= "TypeError"

====
